---- MODULE Spec2Model ----
(***************************************************************************)
(* Binary codec and partial-update builders of the Metexon BLE client      *)
(* (metexon/structures.py, metexon/zellenradschleuse/update_helpers.py,    *)
(* metexon/zellenradschleuse/sentinels.py).                                *)
(* The builders build the dataclasses of the zellenradschleuse package,     *)
(* which have the layout and methods of metexon/structures.py.             *)
(* The module also holds the derivation of the characteristic UUIDs       *)
(* (metexon/constants.py) and the typed client of a connected device      *)
(* (metexon/zellenradschleuse/client.py), whose runs are ClientSpec.       *)
(* The life of a connection (metexon/base.py) is DeviceSpec, and the       *)
(* thread that runs the event loop (metexon/loop_thread.py), with one      *)
(* thread calling run() and one calling close(), is LoopSpec.              *)
(*                                                                         *)
(* Value representation                                                    *)
(*   bytes        a sequence of integers 0..255                            *)
(*   8/16-bit int a TLA+ integer (any Python int the caller passes)        *)
(*   32-bit int   [hi, lo], the integer hi * 65536 + lo with lo in         *)
(*                0..65535 (hi outside 0..65535 is a Python int that does  *)
(*                not fit 32 bits)                                         *)
(*   float        [k, s, e, m, g, st]: a Python float (IEEE double) seen   *)
(*                through the 24 leading significand bits that a single    *)
(*                keeps (m is the 23-bit fraction, e the unbiased          *)
(*                exponent), the guard bit g that follows them and the     *)
(*                sticky bit st (any lower bit set).  k is "zero", "fin",  *)
(*                "inf", "nan" or, in JSON projections, "none" (None).     *)
(***************************************************************************)
EXTENDS Integers, Sequences, FiniteSets, TLC

\* ---------------------------------------------------------------- floats
Pow2(n) == 2 ^ n

Flt(k, s, e, m, g, st) == [k |-> k, s |-> s, e |-> e, m |-> m, g |-> g, st |-> st]

PyNone == Flt("none", 0, 0, 0, 0, 0)
PosZero == Flt("zero", 0, 0, 0, 0, 0)
PosInf == Flt("inf", 0, 0, 0, 0, 0)
\* math.nan: the positive quiet NaN, single bits 0x7FC00000
MathNan == Flt("nan", 0, 0, Pow2(22), 0, 0)

isnan(x) == x.k = "nan"

\* A float that a single holds exactly.
IsSingle(x) ==
    \/ x.k \in {"zero", "inf", "nan"}
    \/ /\ x.k = "fin"
       /\ x.g = 0 /\ x.st = 0
       /\ x.e <= 127
       /\ x.e >= -149
       /\ (x.e < -126 => x.m % Pow2(-126 - x.e) = 0)

\* Python's == on floats: NaN equals nothing, -0.0 == 0.0.
PyFloatEq(x, y) ==
    /\ x.k \in {"zero", "fin", "inf"}
    /\ y.k \in {"zero", "fin", "inf"}
    /\ \/ x.k = "zero" /\ y.k = "zero"
       \/ x.k # "zero" /\ x = y

\* The 31 magnitude bits (exponent field * 2^23 + fraction field) of the
\* single nearest to a finite non-zero float, round-half-to-even; a carry out
\* of the fraction moves into the exponent field.  255 * 2^23 and above is
\* beyond the largest finite single.
RoundMag(x) ==
    IF x.e >= -126
    THEN LET up == IF x.g = 1 /\ (x.st = 1 \/ x.m % 2 = 1) THEN 1 ELSE 0
         IN  IF x.e > 127 THEN 255 * Pow2(23)
             ELSE (x.e + 127) * Pow2(23) + x.m + up
    ELSE LET sh == -126 - x.e
         IN  IF sh >= 25 THEN 0
             ELSE LET sig == Pow2(23) + x.m
                      q == sig \div Pow2(sh)
                      r == sig % Pow2(sh)
                      half == Pow2(sh - 1)
                      up == IF \/ r > half
                               \/ r = half /\ (x.g = 1 \/ x.st = 1)
                               \/ r = half /\ q % 2 = 1
                            THEN 1 ELSE 0
                  IN  q + up

\* struct.pack('<f', x) cannot hold a finite x: OverflowError.
PackFloatOverflows(x) == x.k = "fin" /\ RoundMag(x) >= 255 * Pow2(23)

\* Sign bit and 31 magnitude bits that struct.pack('<f', x) writes.
SingleBits(x) ==
    CASE x.k = "zero" -> [s |-> x.s, mag |-> 0]
      [] x.k = "inf" -> [s |-> x.s, mag |-> 255 * Pow2(23)]
      [] x.k = "nan" -> [s |-> x.s, mag |-> 255 * Pow2(23) + x.m]
      [] OTHER -> [s |-> x.s, mag |-> RoundMag(x)]

\* Little-endian bytes of a single.
PackFloat(x) ==
    LET b == SingleBits(x)
    IN  << b.mag % 256,
           (b.mag \div 256) % 256,
           (b.mag \div 65536) % 256,
           b.s * 128 + b.mag \div Pow2(24) >>

\* Variant: a subnormal single is read as zero.
UnpackFloat_FlushSubnormal(b) ==
    LET s == b[4] \div 128
        mag == (b[4] % 128) * Pow2(24) + b[3] * 65536 + b[2] * 256 + b[1]
        E == mag \div Pow2(23)
        M == mag % Pow2(23)
    IN  IF E = 255
        THEN IF M = 0 THEN Flt("inf", s, 0, 0, 0, 0)
             ELSE Flt("nan", s, 0, IF M >= Pow2(22) THEN M ELSE M + Pow2(22), 0, 0)
        ELSE IF E = 0 THEN Flt("zero", s, 0, 0, 0, 0)
        ELSE Flt("fin", s, E - 127, M, 0, 0)

\* struct.unpack('<f', b): the float a 4-byte little-endian single denotes.
\* Widening a NaN to a double sets its quiet bit.
UnpackFloat(b) ==
    LET s == b[4] \div 128
        mag == (b[4] % 128) * Pow2(24) + b[3] * 65536 + b[2] * 256 + b[1]
        E == mag \div Pow2(23)
        M == mag % Pow2(23)
    IN  IF E = 255
        THEN IF M = 0 THEN Flt("inf", s, 0, 0, 0, 0)
             ELSE Flt("nan", s, 0, IF M >= Pow2(22) THEN M ELSE M + Pow2(22), 0, 0)
        ELSE IF E = 0
        THEN IF M = 0 THEN Flt("zero", s, 0, 0, 0, 0)
             ELSE LET p == CHOOSE i \in 0..22 : Pow2(i) <= M /\ M < Pow2(i + 1)
                  IN  Flt("fin", s, p - 149, M * Pow2(23 - p) - Pow2(23), 0, 0)
        ELSE Flt("fin", s, E - 127, M, 0, 0)

\* f32(v) of the to_json methods: unpack('<f', pack('<f', float(v))).
\* err is "OverflowError" when the pack raises.
f32(v) ==
    IF PackFloatOverflows(v)
    THEN [err |-> "OverflowError", val |-> PyNone]
    ELSE [err |-> "none", val |-> UnpackFloat(PackFloat(v))]

\* ------------------------------------------------------------- integers
\* A Python int held in a 32-bit field: hi * 65536 + lo.
W(hi, lo) == [hi |-> hi, lo |-> lo]

PackU8(v) == << v >>
\* Variant: the high byte first.
PackU16_BigEndian(v) == << v \div 256, v % 256 >>

PackU16(v) == << v % 256, v \div 256 >>
PackU32(v) == << v.lo % 256, v.lo \div 256, v.hi % 256, v.hi \div 256 >>
PackI32(v) ==
    LET h == (v.hi + 65536) % 65536
    IN  << v.lo % 256, v.lo \div 256, h % 256, h \div 256 >>

UnpackU8(b) == b[1]
UnpackU16(b) == b[1] + 256 * b[2]
UnpackU32(b) == W(b[3] + 256 * b[4], b[1] + 256 * b[2])
UnpackI32(b) ==
    LET h == b[3] + 256 * b[4]
    IN  W(IF h >= 32768 THEN h - 65536 ELSE h, b[1] + 256 * b[2])

\* ------------------------------------------------------- struct formats
\* A format is a sequence of items [n, c]: n repetitions of code c, except
\* for "s" where n is the byte length of one blob.
Item(n, c) == [n |-> n, c |-> c]

SYSTEM_STATE_STRUCT ==
    << Item(1, "B"), Item(1, "f"), Item(1, "f"), Item(1, "f"), Item(1, "f"),
       Item(1, "H"), Item(1, "H"), Item(1, "H"), Item(1, "f"),
       Item(1, "B"), Item(1, "B"), Item(1, "B"),
       Item(1, "B"), Item(1, "B"), Item(1, "B"),
       Item(1, "i"), Item(1, "I") >>

MANUAL_CONTROL_STRUCT ==
    << Item(1, "f"), Item(1, "f"), Item(1, "f"), Item(1, "B"), Item(1, "f"),
       Item(8, "s") >>

BLOWER_PID_STRUCT ==
    << Item(1, "f"), Item(1, "f"), Item(1, "f"), Item(1, "f"), Item(1, "f"),
       Item(1, "f"), Item(1, "f"),
       Item(1, "H"), Item(1, "H"), Item(1, "H"), Item(1, "H"),
       Item(1, "I"), Item(1, "I"), Item(1, "I"),
       Item(1, "f"), Item(1, "f"), Item(4, "f") >>

\* One entry per packed argument.
RECURSIVE Expand(_)
Expand(fmt) ==
    IF fmt = << >> THEN << >>
    ELSE LET it == Head(fmt)
         IN  IF it.c = "s" THEN << it >> \o Expand(Tail(fmt))
             ELSE [i \in 1..it.n |-> Item(1, it.c)] \o Expand(Tail(fmt))

\* Bytes one argument occupies.
Width(it) ==
    CASE it.c = "B" -> 1
      [] it.c = "H" -> 2
      [] it.c = "f" -> 4
      [] it.c = "i" -> 4
      [] it.c = "I" -> 4
      [] it.c = "s" -> it.n

\* struct.Struct(fmt).size with '<': no padding.
RECURSIVE SizeOfItems(_)
SizeOfItems(items) ==
    IF items = << >> THEN 0 ELSE Width(Head(items)) + SizeOfItems(Tail(items))

\* Variant: the size rounded up to the 4-byte alignment of a native struct.
StructSize_Aligned(fmt) == ((SizeOfItems(Expand(fmt)) + 3) \div 4) * 4

StructSize(fmt) == SizeOfItems(Expand(fmt))

\* Error that packing one argument raises, "none" when it packs.
PackArgErr(it, v) ==
    CASE it.c = "B" -> IF v >= 0 /\ v <= 255 THEN "none" ELSE "struct.error"
      [] it.c = "H" -> IF v >= 0 /\ v <= 65535 THEN "none" ELSE "struct.error"
      [] it.c = "I" -> IF v.hi >= 0 /\ v.hi <= 65535 THEN "none" ELSE "struct.error"
      [] it.c = "i" -> IF v.hi >= -32768 /\ v.hi <= 32767 THEN "none" ELSE "struct.error"
      [] it.c = "f" -> IF v = PyNone THEN "struct.error"
                       ELSE IF PackFloatOverflows(v) THEN "OverflowError" ELSE "none"
      [] it.c = "s" -> "none"

\* Variant: a shorter blob is padded with spaces.
PackBlob_SpacePad(n, v) == [i \in 1..n |-> IF i <= Len(v) THEN v[i] ELSE 32]

\* 's' truncates a longer blob and pads a shorter one with zero bytes.
PackBlob(n, v) == [i \in 1..n |-> IF i <= Len(v) THEN v[i] ELSE 0]

PackArg(it, v) ==
    CASE it.c = "B" -> PackU8(v)
      [] it.c = "H" -> PackU16(v)
      [] it.c = "I" -> PackU32(v)
      [] it.c = "i" -> PackI32(v)
      [] it.c = "f" -> PackFloat(v)
      [] it.c = "s" -> PackBlob(it.n, v)

RECURSIVE PackAll(_, _)
PackAll(items, args) ==
    IF items = << >> THEN << >>
    ELSE PackArg(Head(items), Head(args)) \o PackAll(Tail(items), Tail(args))

\* Struct.pack(*args): the bytes, or the error of the first argument that
\* does not pack; a wrong argument count is a struct.error.
StructPack(fmt, args) ==
    LET items == Expand(fmt)
    IN  IF Len(args) # Len(items)
        THEN [err |-> "struct.error", data |-> << >>]
        ELSE LET bad == {i \in 1..Len(items) : PackArgErr(items[i], args[i]) # "none"}
             IN  IF bad # {}
                 THEN LET i == CHOOSE j \in bad : \A l \in bad : j <= l
                      IN  [err |-> PackArgErr(items[i], args[i]), data |-> << >>]
                 ELSE [err |-> "none", data |-> PackAll(items, args)]

UnpackArg(it, b) ==
    CASE it.c = "B" -> UnpackU8(b)
      [] it.c = "H" -> UnpackU16(b)
      [] it.c = "I" -> UnpackU32(b)
      [] it.c = "i" -> UnpackI32(b)
      [] it.c = "f" -> UnpackFloat(b)
      [] it.c = "s" -> b

\* Struct.unpack(data) for len(data) = size: one value per argument, read at
\* the offset that the widths before it add up to.
RECURSIVE UnpackAll(_, _)
UnpackAll(items, data) ==
    IF items = << >> THEN << >>
    ELSE LET w == Width(Head(items))
         IN  << UnpackArg(Head(items), SubSeq(data, 1, w)) >>
             \o UnpackAll(Tail(items), SubSeq(data, w + 1, Len(data)))

StructUnpack(fmt, data) == UnpackAll(Expand(fmt), data)

\* ------------------------------------------------------------- sentinels
FLOAT_NO_CHANGE == MathNan
PWM_NO_CHANGE == 65535
\* -2**31
ENCODER_NO_CHANGE == W(-32768, 0)
\* 0xFFFFFFFF
U32_NO_CHANGE == W(65535, 65535)

\* --------------------------------------------------------------- records
\* A dataclass instance: its class name and its fields.  An RGB instance is
\* the triple << red, green, blue >>.
Obj(cls, f) == [cls |-> cls, f |-> f]
NoObj == Obj("None", [none |-> 0])

\* dict.get(k, default); a dict is a function from its keys.
Get(d, k, default) == IF k \in DOMAIN d THEN d[k] ELSE default
EmptyDict == [k \in {} |-> 0]

\* A call's outcome: the error raised ("none" when it returns) and the value.
Ok(v) == [err |-> "none", val |-> v]
Raise(e) == [err |-> e, val |-> NoObj]

Zeros(n) == [i \in 1..n |-> 0]

\* RGB.to_tuple
to_tuple(c) == << c[1], c[2], c[3] >>

\* ------------------------------------------------------------ UUIDs
\* reversed(byte_list)
Reversed(b) == [i \in 1..Len(b) |-> b[Len(b) + 1 - i]]

\* uuid.UUID(bytes=b): the UUID whose 16 bytes, most significant first, are b.
UUID(b) == [bytes |-> b]

\* Variant: the list is taken in the order given.
uuid_from_le_bytes_NotReversed(byte_list) ==
    IF Len(byte_list) # 16 THEN Raise("ValueError")
    ELSE IF \E i \in 1..Len(byte_list) : byte_list[i] \notin 0..255
    THEN Raise("ValueError")
    ELSE Ok(UUID(byte_list))

\* _uuid_from_le_bytes; bytes(...) raises ValueError for an element outside
\* range(256).
uuid_from_le_bytes(byte_list) ==
    IF Len(byte_list) # 16 THEN Raise("ValueError")
    ELSE IF \E i \in 1..Len(byte_list) : byte_list[i] \notin 0..255
    THEN Raise("ValueError")
    ELSE Ok(UUID(Reversed(byte_list)))

\* Raw byte definitions copied from firmware (BLE_UUID128_INIT order)
SERVICE_BYTES ==
    << 170, 133, 158, 95, 221, 90, 130, 66,
       129, 132, 196, 225, 35, 95, 53, 66 >>
DEVICE_TYPE_BYTES ==
    << 160, 175, 92, 202, 178, 151, 223, 79,
       188, 194, 250, 107, 120, 183, 247, 104 >>
SYSTEM_STATE_BYTES ==
    << 104, 135, 152, 137, 15, 254, 172, 79,
       173, 13, 240, 219, 36, 246, 177, 47 >>
RGB_LED_BYTES ==
    << 108, 213, 209, 22, 154, 53, 84, 75,
       186, 204, 71, 241, 148, 15, 55, 149 >>
BLOWER_PID_BYTES ==
    << 76, 56, 97, 35, 1, 187, 164, 65,
       143, 27, 65, 143, 149, 19, 192, 96 >>
WIFI_BYTES ==
    << 189, 218, 93, 150, 240, 246, 127, 69,
       156, 109, 89, 245, 180, 108, 119, 7 >>
OTA_BYTES ==
    << 62, 45, 136, 183, 234, 237, 25, 67,
       145, 184, 210, 4, 95, 133, 209, 44 >>
MANUAL_CONTROL_BYTES ==
    << 123, 193, 66, 94, 17, 170, 77, 73,
       167, 119, 197, 49, 159, 66, 179, 86 >>

METEXON_SERVICE_UUID == uuid_from_le_bytes(SERVICE_BYTES).val
DEVICE_TYPE_UUID == uuid_from_le_bytes(DEVICE_TYPE_BYTES).val
SYSTEM_STATE_UUID == uuid_from_le_bytes(SYSTEM_STATE_BYTES).val
RGB_LED_UUID == uuid_from_le_bytes(RGB_LED_BYTES).val
BLOWER_PID_UUID == uuid_from_le_bytes(BLOWER_PID_BYTES).val
WIFI_UUID == uuid_from_le_bytes(WIFI_BYTES).val
OTA_UUID == uuid_from_le_bytes(OTA_BYTES).val
MANUAL_CONTROL_UUID == uuid_from_le_bytes(MANUAL_CONTROL_BYTES).val

ALL_UUIDS ==
    [service |-> METEXON_SERVICE_UUID,
     device_type |-> DEVICE_TYPE_UUID,
     system_state |-> SYSTEM_STATE_UUID,
     rgb_led |-> RGB_LED_UUID,
     blower_pid |-> BLOWER_PID_UUID,
     wifi |-> WIFI_UUID,
     ota |-> OTA_UUID,
     manual_control |-> MANUAL_CONTROL_UUID]

FirmwareTables ==
    << SERVICE_BYTES, DEVICE_TYPE_BYTES, SYSTEM_STATE_BYTES, RGB_LED_BYTES,
       BLOWER_PID_BYTES, WIFI_BYTES, OTA_BYTES, MANUAL_CONTROL_BYTES >>

\* str(UUID): 32 lower-case hex digits in groups of 8-4-4-4-12.
HexDigit(n) ==
    << "0", "1", "2", "3", "4", "5", "6", "7", "8", "9",
       "a", "b", "c", "d", "e", "f" >>[n + 1]

HexByte(v) == HexDigit(v \div 16) \o HexDigit(v % 16)

RECURSIVE HexOf(_, _, _)
HexOf(b, i, j) == IF i > j THEN "" ELSE HexByte(b[i]) \o HexOf(b, i + 1, j)

UuidStr(u) ==
    HexOf(u.bytes, 1, 4) \o "-" \o HexOf(u.bytes, 5, 6) \o "-" \o HexOf(u.bytes, 7, 8)
        \o "-" \o HexOf(u.bytes, 9, 10) \o "-" \o HexOf(u.bytes, 11, 16)

\* ----------------------------------------------------------- SystemState
\* Variant: only a buffer that is too short is rejected.
SystemState_from_bytes_Lenient(data) ==
    IF Len(data) < StructSize(SYSTEM_STATE_STRUCT)
    THEN Raise("ValueError")
    ELSE LET u == StructUnpack(SYSTEM_STATE_STRUCT, data)
         IN  Ok(Obj("SystemState",
                [state |-> u[1],
                 pressure1 |-> u[2],
                 pressure2 |-> u[3],
                 absPressure |-> u[4],
                 motorCurrent |-> u[5],
                 getriebemotorPWM |-> u[6],
                 vibrationsmotorPWM |-> u[7],
                 blowerPWM |-> u[8],
                 blowerPulseRateRPM |-> u[9],
                 rgb |-> << << u[10], u[11], u[12] >>, << u[13], u[14], u[15] >> >>,
                 encoderCount |-> u[16],
                 blowerPulseCount |-> u[17]]))

SystemState_from_bytes(data) ==
    IF Len(data) # StructSize(SYSTEM_STATE_STRUCT)
    THEN Raise("ValueError")
    ELSE LET u == StructUnpack(SYSTEM_STATE_STRUCT, data)
         IN  Ok(Obj("SystemState",
                [state |-> u[1],
                 pressure1 |-> u[2],
                 pressure2 |-> u[3],
                 absPressure |-> u[4],
                 motorCurrent |-> u[5],
                 getriebemotorPWM |-> u[6],
                 vibrationsmotorPWM |-> u[7],
                 blowerPWM |-> u[8],
                 blowerPulseRateRPM |-> u[9],
                 rgb |-> << << u[10], u[11], u[12] >>, << u[13], u[14], u[15] >> >>,
                 encoderCount |-> u[16],
                 blowerPulseCount |-> u[17]]))

SystemState_to_bytes(self) ==
    LET c0 == IF Len(self.f.rgb) > 0 THEN to_tuple(self.f.rgb[1]) ELSE << 0, 0, 0 >>
        c1 == IF Len(self.f.rgb) > 1 THEN to_tuple(self.f.rgb[2]) ELSE << 0, 0, 0 >>
    IN  StructPack(SYSTEM_STATE_STRUCT,
            << self.f.state,
               self.f.pressure1,
               self.f.pressure2,
               self.f.absPressure,
               self.f.motorCurrent,
               self.f.getriebemotorPWM,
               self.f.vibrationsmotorPWM,
               self.f.blowerPWM,
               self.f.blowerPulseRateRPM,
               c0[1], c0[2], c0[3], c1[1], c1[2], c1[3],
               self.f.encoderCount,
               self.f.blowerPulseCount >>)

\* The float keys a to_json quantizes, in the order of its f32 calls.
SystemStateFloats ==
    << "pressure1", "pressure2", "absPressure", "motorCurrent", "blowerPulseRateRPM" >>

\* d with each key of keys replaced by its f32; the first f32 that raises
\* ends the call.
Quantize(d, keys) ==
    LET bad == {i \in 1..Len(keys) : f32(d[keys[i]]).err # "none"}
    IN  IF bad # {}
        THEN Raise(f32(d[keys[CHOOSE i \in bad : \A j \in bad : i <= j]]).err)
        ELSE Ok([k \in DOMAIN d |->
                    IF \E i \in 1..Len(keys) : keys[i] = k THEN f32(d[k]).val ELSE d[k]])

SystemState_to_json(self) ==
    LET d == [self.f EXCEPT !.rgb = [i \in 1..Len(self.f.rgb) |-> to_tuple(self.f.rgb[i])]]
    IN  Quantize(d, SystemStateFloats)

SystemState_from_json(d) ==
    LET rgb_list == Get(d, "rgb", << << 0, 0, 0 >>, << 0, 0, 0 >> >>)
    IN  IF \E i \in 1..Len(rgb_list) : Len(rgb_list[i]) # 3
        THEN Raise("TypeError")
        ELSE Ok(Obj("SystemState",
                [state |-> Get(d, "state", 0),
                 pressure1 |-> Get(d, "pressure1", MathNan),
                 pressure2 |-> Get(d, "pressure2", MathNan),
                 absPressure |-> Get(d, "absPressure", MathNan),
                 motorCurrent |-> Get(d, "motorCurrent", MathNan),
                 getriebemotorPWM |-> Get(d, "getriebemotorPWM", 65535),
                 vibrationsmotorPWM |-> Get(d, "vibrationsmotorPWM", 65535),
                 blowerPWM |-> Get(d, "blowerPWM", 65535),
                 blowerPulseRateRPM |-> Get(d, "blowerPulseRateRPM", MathNan),
                 rgb |-> rgb_list,
                 encoderCount |-> Get(d, "encoderCount", W(-32768, 0)),
                 blowerPulseCount |-> Get(d, "blowerPulseCount", W(65535, 65535))]))

\* --------------------------------------------------------- ManualControl
\* Default of the dataclass field reserved: b'\x00' * 8
ManualControl_reserved == Zeros(8)

ManualControl_from_bytes(data) ==
    IF Len(data) # StructSize(MANUAL_CONTROL_STRUCT)
    THEN Raise("ValueError")
    ELSE LET u == StructUnpack(MANUAL_CONTROL_STRUCT, data)
         IN  Ok(Obj("ManualControl",
                [blower_rpm |-> u[1],
                 getriebemotor_pwm |-> u[2],
                 vibrationsmotor_pwm |-> u[3],
                 enable_getriebemotor_nvs |-> u[4],
                 feeder_seconds |-> u[5],
                 reserved |-> u[6]]))

\* Variant: the two PWM arguments in each other's place.
ManualControl_to_bytes_Swapped(self) ==
    StructPack(MANUAL_CONTROL_STRUCT,
        << self.f.blower_rpm,
           self.f.vibrationsmotor_pwm,
           self.f.getriebemotor_pwm,
           self.f.enable_getriebemotor_nvs,
           self.f.feeder_seconds,
           self.f.reserved >>)

ManualControl_to_bytes(self) ==
    StructPack(MANUAL_CONTROL_STRUCT,
        << self.f.blower_rpm,
           self.f.getriebemotor_pwm,
           self.f.vibrationsmotor_pwm,
           self.f.enable_getriebemotor_nvs,
           self.f.feeder_seconds,
           self.f.reserved >>)

\* Variant: feeder_seconds is not quantized.
ManualControlFloats_Missing ==
    << "blower_rpm", "getriebemotor_pwm", "vibrationsmotor_pwm" >>

ManualControlFloats ==
    << "blower_rpm", "getriebemotor_pwm", "vibrationsmotor_pwm", "feeder_seconds" >>

ManualControl_to_json(self) == Quantize(self.f, ManualControlFloats)

\* Variant: reserved is cut to 8 bytes but not padded.
ManualControl_from_json_NoPad(d) ==
    LET r == Get(d, "reserved", Zeros(8))
    IN  IF \E i \in 1..Len(r) : r[i] < 0 \/ r[i] > 255
        THEN Raise("ValueError")
        ELSE Ok(Obj("ManualControl",
                [blower_rpm |-> Get(d, "blower_rpm", MathNan),
                 getriebemotor_pwm |-> Get(d, "getriebemotor_pwm", MathNan),
                 vibrationsmotor_pwm |-> Get(d, "vibrationsmotor_pwm", MathNan),
                 enable_getriebemotor_nvs |-> Get(d, "enable_getriebemotor_nvs", 0),
                 feeder_seconds |-> Get(d, "feeder_seconds", MathNan),
                 reserved |-> SubSeq(r, 1, IF Len(r) < 8 THEN Len(r) ELSE 8)]))

\* bytes(x)[:8].ljust(8, b'\x00'); bytes(x) raises ValueError for an element
\* outside range(256).
ManualControl_from_json(d) ==
    LET r == Get(d, "reserved", Zeros(8))
    IN  IF \E i \in 1..Len(r) : r[i] < 0 \/ r[i] > 255
        THEN Raise("ValueError")
        ELSE Ok(Obj("ManualControl",
                [blower_rpm |-> Get(d, "blower_rpm", MathNan),
                 getriebemotor_pwm |-> Get(d, "getriebemotor_pwm", MathNan),
                 vibrationsmotor_pwm |-> Get(d, "vibrationsmotor_pwm", MathNan),
                 enable_getriebemotor_nvs |-> Get(d, "enable_getriebemotor_nvs", 0),
                 feeder_seconds |-> Get(d, "feeder_seconds", MathNan),
                 reserved |-> [i \in 1..8 |-> IF i <= Len(r) THEN r[i] ELSE 0]]))

\* ------------------------------------------------------------- BlowerPID
\* Variant: only a buffer that is too short is rejected.
BlowerPID_from_bytes_Lenient(data) ==
    IF Len(data) < StructSize(BLOWER_PID_STRUCT)
    THEN Raise("ValueError")
    ELSE LET u == StructUnpack(BLOWER_PID_STRUCT, data)
         IN  Ok(Obj("BlowerPID",
                [kp |-> u[1],
                 ki |-> u[2],
                 kd |-> u[3],
                 target_frequency |-> u[4],
                 current_frequency |-> u[5],
                 last_error |-> u[6],
                 integral_sum |-> u[7],
                 current_pwm |-> u[8],
                 manual_pwm_value |-> u[9],
                 min_pwm_output |-> u[10],
                 max_pwm_output |-> u[11],
                 update_interval_ms |-> u[12],
                 flags |-> u[13],
                 last_update_tick |-> u[14],
                 feed_forward |-> u[15],
                 derivative_filter_hz |-> u[16],
                 reserved_floats |-> SubSeq(u, 17, 20)]))

BlowerPID_from_bytes(data) ==
    IF Len(data) # StructSize(BLOWER_PID_STRUCT)
    THEN Raise("ValueError")
    ELSE LET u == StructUnpack(BLOWER_PID_STRUCT, data)
         IN  Ok(Obj("BlowerPID",
                [kp |-> u[1],
                 ki |-> u[2],
                 kd |-> u[3],
                 target_frequency |-> u[4],
                 current_frequency |-> u[5],
                 last_error |-> u[6],
                 integral_sum |-> u[7],
                 current_pwm |-> u[8],
                 manual_pwm_value |-> u[9],
                 min_pwm_output |-> u[10],
                 max_pwm_output |-> u[11],
                 update_interval_ms |-> u[12],
                 flags |-> u[13],
                 last_update_tick |-> u[14],
                 feed_forward |-> u[15],
                 derivative_filter_hz |-> u[16],
                 reserved_floats |-> SubSeq(u, 17, 20)]))

\* Variant: the reserved floats are not passed to pack.
BlowerPID_to_bytes_NoReserved(self) ==
    StructPack(BLOWER_PID_STRUCT,
        << self.f.kp, self.f.ki, self.f.kd, self.f.target_frequency,
           self.f.current_frequency, self.f.last_error, self.f.integral_sum,
           self.f.current_pwm, self.f.manual_pwm_value, self.f.min_pwm_output,
           self.f.max_pwm_output, self.f.update_interval_ms, self.f.flags,
           self.f.last_update_tick, self.f.feed_forward,
           self.f.derivative_filter_hz >>)

BlowerPID_to_bytes(self) ==
    StructPack(BLOWER_PID_STRUCT,
        << self.f.kp,
           self.f.ki,
           self.f.kd,
           self.f.target_frequency,
           self.f.current_frequency,
           self.f.last_error,
           self.f.integral_sum,
           self.f.current_pwm,
           self.f.manual_pwm_value,
           self.f.min_pwm_output,
           self.f.max_pwm_output,
           self.f.update_interval_ms,
           self.f.flags,
           self.f.last_update_tick,
           self.f.feed_forward,
           self.f.derivative_filter_hz >> \o self.f.reserved_floats)

BlowerPIDFloats ==
    << "kp", "ki", "kd", "target_frequency", "current_frequency", "last_error",
       "integral_sum", "feed_forward", "derivative_filter_hz" >>

\* _nan_safe of BlowerPID.to_json
nan_safe(x) == IF isnan(x) THEN Ok(PyNone) ELSE f32(x)

BlowerPID_to_json(self) ==
    LET q == Quantize(self.f, BlowerPIDFloats)
        rf == self.f.reserved_floats
        bad == {i \in 1..Len(rf) : nan_safe(rf[i]).err # "none"}
    IN  IF q.err # "none" THEN q
        ELSE IF bad # {}
        THEN Raise(nan_safe(rf[CHOOSE i \in bad : \A j \in bad : i <= j]).err)
        ELSE Ok([q.val EXCEPT !.reserved_floats = [i \in 1..Len(rf) |-> nan_safe(rf[i]).val]])

BlowerPID_from_json(d) ==
    LET rf == Get(d, "reserved_floats", [i \in 1..4 |-> MathNan])
    IN  Ok(Obj("BlowerPID",
            [kp |-> Get(d, "kp", MathNan),
             ki |-> Get(d, "ki", MathNan),
             kd |-> Get(d, "kd", MathNan),
             target_frequency |-> Get(d, "target_frequency", MathNan),
             current_frequency |-> Get(d, "current_frequency", MathNan),
             last_error |-> Get(d, "last_error", MathNan),
             integral_sum |-> Get(d, "integral_sum", MathNan),
             current_pwm |-> Get(d, "current_pwm", 65535),
             manual_pwm_value |-> Get(d, "manual_pwm_value", 65535),
             min_pwm_output |-> Get(d, "min_pwm_output", 65535),
             max_pwm_output |-> Get(d, "max_pwm_output", 65535),
             update_interval_ms |-> Get(d, "update_interval_ms", W(0, 0)),
             flags |-> Get(d, "flags", W(0, 0)),
             last_update_tick |-> Get(d, "last_update_tick", W(0, 0)),
             feed_forward |-> Get(d, "feed_forward", MathNan),
             derivative_filter_hz |-> Get(d, "derivative_filter_hz", MathNan),
             reserved_floats |-> SubSeq(rf, 1, IF Len(rf) < 4 THEN Len(rf) ELSE 4)]))

\* ------------------------------------------------- partial-update builders
\* Variant: an unspecified blowerPWM is 0.
partial_system_state_ZeroPwm(kwargs) ==
    SystemState_from_json(
        [state |-> Get(kwargs, "state", 0),
         pressure1 |-> Get(kwargs, "pressure1", FLOAT_NO_CHANGE),
         pressure2 |-> Get(kwargs, "pressure2", FLOAT_NO_CHANGE),
         absPressure |-> Get(kwargs, "absPressure", FLOAT_NO_CHANGE),
         motorCurrent |-> Get(kwargs, "motorCurrent", FLOAT_NO_CHANGE),
         getriebemotorPWM |-> Get(kwargs, "getriebemotorPWM", PWM_NO_CHANGE),
         vibrationsmotorPWM |-> Get(kwargs, "vibrationsmotorPWM", PWM_NO_CHANGE),
         blowerPWM |-> Get(kwargs, "blowerPWM", 0),
         blowerPulseRateRPM |-> Get(kwargs, "blowerPulseRateRPM", FLOAT_NO_CHANGE),
         rgb |-> Get(kwargs, "rgb", << << 0, 0, 0 >>, << 0, 0, 0 >> >>),
         encoderCount |-> Get(kwargs, "encoderCount", ENCODER_NO_CHANGE),
         blowerPulseCount |-> Get(kwargs, "blowerPulseCount", U32_NO_CHANGE)])

partial_system_state(kwargs) ==
    SystemState_from_json(
        [state |-> Get(kwargs, "state", 0),
         pressure1 |-> Get(kwargs, "pressure1", FLOAT_NO_CHANGE),
         pressure2 |-> Get(kwargs, "pressure2", FLOAT_NO_CHANGE),
         absPressure |-> Get(kwargs, "absPressure", FLOAT_NO_CHANGE),
         motorCurrent |-> Get(kwargs, "motorCurrent", FLOAT_NO_CHANGE),
         getriebemotorPWM |-> Get(kwargs, "getriebemotorPWM", PWM_NO_CHANGE),
         vibrationsmotorPWM |-> Get(kwargs, "vibrationsmotorPWM", PWM_NO_CHANGE),
         blowerPWM |-> Get(kwargs, "blowerPWM", PWM_NO_CHANGE),
         blowerPulseRateRPM |-> Get(kwargs, "blowerPulseRateRPM", FLOAT_NO_CHANGE),
         rgb |-> Get(kwargs, "rgb", << << 0, 0, 0 >>, << 0, 0, 0 >> >>),
         encoderCount |-> Get(kwargs, "encoderCount", ENCODER_NO_CHANGE),
         blowerPulseCount |-> Get(kwargs, "blowerPulseCount", U32_NO_CHANGE)])

\* Variant: a keyword that is no field of ManualControl is rejected, as a
\* function with named parameters would do.
partial_manual_control_Strict(kwargs) ==
    IF \E k \in DOMAIN kwargs :
         k \notin {"blower_rpm", "getriebemotor_pwm", "vibrationsmotor_pwm",
                   "enable_getriebemotor_nvs", "feeder_seconds", "reserved"}
    THEN Raise("TypeError")
    ELSE ManualControl_from_json(
        [blower_rpm |-> Get(kwargs, "blower_rpm", FLOAT_NO_CHANGE),
         getriebemotor_pwm |-> Get(kwargs, "getriebemotor_pwm", FLOAT_NO_CHANGE),
         vibrationsmotor_pwm |-> Get(kwargs, "vibrationsmotor_pwm", FLOAT_NO_CHANGE),
         enable_getriebemotor_nvs |-> Get(kwargs, "enable_getriebemotor_nvs", 0),
         feeder_seconds |-> Get(kwargs, "feeder_seconds", FLOAT_NO_CHANGE),
         reserved |-> Get(kwargs, "reserved", Zeros(8))])

partial_manual_control(kwargs) ==
    ManualControl_from_json(
        [blower_rpm |-> Get(kwargs, "blower_rpm", FLOAT_NO_CHANGE),
         getriebemotor_pwm |-> Get(kwargs, "getriebemotor_pwm", FLOAT_NO_CHANGE),
         vibrationsmotor_pwm |-> Get(kwargs, "vibrationsmotor_pwm", FLOAT_NO_CHANGE),
         enable_getriebemotor_nvs |-> Get(kwargs, "enable_getriebemotor_nvs", 0),
         feeder_seconds |-> Get(kwargs, "feeder_seconds", FLOAT_NO_CHANGE),
         reserved |-> Get(kwargs, "reserved", Zeros(8))])

\* Variant: the unspecified 32-bit fields carry U32_NO_CHANGE.
partial_blower_pid_U32Sentinel(kwargs) ==
    BlowerPID_from_json(
        [kp |-> Get(kwargs, "kp", FLOAT_NO_CHANGE),
         ki |-> Get(kwargs, "ki", FLOAT_NO_CHANGE),
         kd |-> Get(kwargs, "kd", FLOAT_NO_CHANGE),
         target_frequency |-> Get(kwargs, "target_frequency", FLOAT_NO_CHANGE),
         current_frequency |-> Get(kwargs, "current_frequency", FLOAT_NO_CHANGE),
         last_error |-> Get(kwargs, "last_error", FLOAT_NO_CHANGE),
         integral_sum |-> Get(kwargs, "integral_sum", FLOAT_NO_CHANGE),
         current_pwm |-> Get(kwargs, "current_pwm", PWM_NO_CHANGE),
         manual_pwm_value |-> Get(kwargs, "manual_pwm_value", PWM_NO_CHANGE),
         min_pwm_output |-> Get(kwargs, "min_pwm_output", PWM_NO_CHANGE),
         max_pwm_output |-> Get(kwargs, "max_pwm_output", PWM_NO_CHANGE),
         update_interval_ms |-> Get(kwargs, "update_interval_ms", U32_NO_CHANGE),
         flags |-> Get(kwargs, "flags", U32_NO_CHANGE),
         last_update_tick |-> Get(kwargs, "last_update_tick", U32_NO_CHANGE),
         feed_forward |-> Get(kwargs, "feed_forward", FLOAT_NO_CHANGE),
         derivative_filter_hz |-> Get(kwargs, "derivative_filter_hz", FLOAT_NO_CHANGE),
         reserved_floats |-> Get(kwargs, "reserved_floats", [i \in 1..4 |-> FLOAT_NO_CHANGE])])

partial_blower_pid(kwargs) ==
    BlowerPID_from_json(
        [kp |-> Get(kwargs, "kp", FLOAT_NO_CHANGE),
         ki |-> Get(kwargs, "ki", FLOAT_NO_CHANGE),
         kd |-> Get(kwargs, "kd", FLOAT_NO_CHANGE),
         target_frequency |-> Get(kwargs, "target_frequency", FLOAT_NO_CHANGE),
         current_frequency |-> Get(kwargs, "current_frequency", FLOAT_NO_CHANGE),
         last_error |-> Get(kwargs, "last_error", FLOAT_NO_CHANGE),
         integral_sum |-> Get(kwargs, "integral_sum", FLOAT_NO_CHANGE),
         current_pwm |-> Get(kwargs, "current_pwm", PWM_NO_CHANGE),
         manual_pwm_value |-> Get(kwargs, "manual_pwm_value", PWM_NO_CHANGE),
         min_pwm_output |-> Get(kwargs, "min_pwm_output", PWM_NO_CHANGE),
         max_pwm_output |-> Get(kwargs, "max_pwm_output", PWM_NO_CHANGE),
         update_interval_ms |-> Get(kwargs, "update_interval_ms", W(0, 0)),
         flags |-> Get(kwargs, "flags", W(0, 0)),
         last_update_tick |-> Get(kwargs, "last_update_tick", W(0, 0)),
         feed_forward |-> Get(kwargs, "feed_forward", FLOAT_NO_CHANGE),
         derivative_filter_hz |-> Get(kwargs, "derivative_filter_hz", FLOAT_NO_CHANGE),
         reserved_floats |-> Get(kwargs, "reserved_floats", [i \in 1..4 |-> FLOAT_NO_CHANGE])])

\* ------------------------------------------------- dispatch on the class
Classes == {"SystemState", "ManualControl", "BlowerPID"}

from_bytes(cls, data) ==
    CASE cls = "SystemState" -> SystemState_from_bytes(data)
      [] cls = "ManualControl" -> ManualControl_from_bytes(data)
      [] cls = "BlowerPID" -> BlowerPID_from_bytes(data)

to_bytes(self) ==
    CASE self.cls = "SystemState" -> SystemState_to_bytes(self)
      [] self.cls = "ManualControl" -> ManualControl_to_bytes(self)
      [] self.cls = "BlowerPID" -> BlowerPID_to_bytes(self)

to_json(self) ==
    CASE self.cls = "SystemState" -> SystemState_to_json(self)
      [] self.cls = "ManualControl" -> ManualControl_to_json(self)
      [] self.cls = "BlowerPID" -> BlowerPID_to_json(self)

from_json(cls, d) ==
    CASE cls = "SystemState" -> SystemState_from_json(d)
      [] cls = "ManualControl" -> ManualControl_from_json(d)
      [] cls = "BlowerPID" -> BlowerPID_from_json(d)

partial(cls, kwargs) ==
    CASE cls = "SystemState" -> partial_system_state(kwargs)
      [] cls = "ManualControl" -> partial_manual_control(kwargs)
      [] cls = "BlowerPID" -> partial_blower_pid(kwargs)

StructOf(cls) ==
    CASE cls = "SystemState" -> SYSTEM_STATE_STRUCT
      [] cls = "ManualControl" -> MANUAL_CONTROL_STRUCT
      [] cls = "BlowerPID" -> BLOWER_PID_STRUCT

\* ------------------------------------------------------------------ text
\* A str is the sequence of its code points; a value that is no record is
\* Obj(type, value): Obj("str", s), Obj("int", n), Obj("bool", b),
\* Obj("list", seq), Obj("dict", function from key strings to values).  None
\* is NoObj.
Str(t) == Obj("str", t)

\* Length of the UTF-8 sequence a lead byte starts, 0 for a byte that starts
\* none.
Utf8Len(b) ==
    IF b < 128 THEN 1
    ELSE IF b >= 194 /\ b <= 223 THEN 2
    ELSE IF b >= 224 /\ b <= 239 THEN 3
    ELSE IF b >= 240 /\ b <= 244 THEN 4
    ELSE 0

\* Byte c may be byte k (2..4) of the sequence that lead starts: no overlong
\* form, no surrogate, nothing above U+10FFFF.
ContinuationOk(lead, k, c) ==
    IF k > 2 THEN c >= 128 /\ c <= 191
    ELSE CASE lead = 224 -> c >= 160 /\ c <= 191
           [] lead = 237 -> c >= 128 /\ c <= 159
           [] lead = 240 -> c >= 144 /\ c <= 191
           [] lead = 244 -> c >= 128 /\ c <= 143
           [] OTHER -> c >= 128 /\ c <= 191

\* Bytes of the longest well-formed start of a sequence at position i.
RECURSIVE Utf8Prefix(_, _, _)
Utf8Prefix(data, i, k) ==
    IF /\ k <= Utf8Len(data[i])
       /\ i + k - 1 <= Len(data)
       /\ ContinuationOk(data[i], k, data[i + k - 1])
    THEN Utf8Prefix(data, i, k + 1)
    ELSE k - 1

Utf8CodePoint(data, i, n) ==
    CASE n = 1 -> data[i]
      [] n = 2 -> (data[i] % 32) * 64 + (data[i + 1] % 64)
      [] n = 3 -> (data[i] % 16) * 4096 + (data[i + 1] % 64) * 64 + (data[i + 2] % 64)
      [] n = 4 -> (data[i] % 8) * 262144 + (data[i + 1] % 64) * 4096
                    + (data[i + 2] % 64) * 64 + (data[i + 3] % 64)

\* bytes.decode('utf-8', errors): with errors = "strict" an ill-formed byte
\* raises UnicodeDecodeError, with "replace" every ill-formed part becomes
\* U+FFFD.
RECURSIVE Utf8Decode(_, _, _)
Utf8Decode(data, i, errors) ==
    IF i > Len(data) THEN [err |-> "none", val |-> << >>]
    ELSE LET n == Utf8Len(data[i])
             got == Utf8Prefix(data, i, 2)
         IN  IF n > 0 /\ got = n
             THEN LET rest == Utf8Decode(data, i + n, errors)
                  IN  IF rest.err # "none" THEN rest
                      ELSE [err |-> "none",
                            val |-> << Utf8CodePoint(data, i, n) >> \o rest.val]
             ELSE IF errors = "strict"
             THEN [err |-> "UnicodeDecodeError", val |-> << >>]
             ELSE LET rest == Utf8Decode(data, i + got, errors)
                  IN  [err |-> "none", val |-> << 65533 >> \o rest.val]

decode(data, errors) == Utf8Decode(data, 1, errors)

\* str.encode() of a str of ASCII characters.
encode(t) == t

\* ------------------------------------------------------------------ json
\* json.loads on a str, for JSON texts of objects, arrays, strings without
\* escapes, integers and the literals true, false and null.
JsonWs == {32, 9, 10, 13}
JsonDigits == 48..57

RECURSIVE SkipWs(_, _)
SkipWs(t, i) == IF i <= Len(t) /\ t[i] \in JsonWs THEN SkipWs(t, i + 1) ELSE i

JFail == [ok |-> FALSE, val |-> NoObj, next |-> 0]
JOk(v, n) == [ok |-> TRUE, val |-> v, next |-> n]

\* t has the characters of lit at position i.
Matches(t, i, lit) ==
    /\ i + Len(lit) - 1 <= Len(t)
    /\ \A k \in 1..Len(lit) : t[i + k - 1] = lit[k]

\* A string starting at the quote t[i].
ParseString(t, i) ==
    LET ends == {j \in (i + 1)..Len(t) : t[j] = 34}
    IN  IF ends = {} THEN JFail
        ELSE LET j == CHOOSE e \in ends : \A f \in ends : e <= f
             IN  IF \E k \in (i + 1)..(j - 1) : t[k] < 32 \/ t[k] = 92
                 THEN JFail
                 ELSE JOk(Str(SubSeq(t, i + 1, j - 1)), j + 1)

RECURSIVE DigitsEnd(_, _)
DigitsEnd(t, i) == IF i <= Len(t) /\ t[i] \in JsonDigits THEN DigitsEnd(t, i + 1) ELSE i

RECURSIVE DigitsValue(_, _, _)
DigitsValue(t, i, j) ==
    IF j < i THEN 0 ELSE DigitsValue(t, i, j - 1) * 10 + (t[j] - 48)

\* An integer starting at t[i]: -?(0|[1-9][0-9]*)
ParseNumber(t, i) ==
    LET neg == t[i] = 45
        d == IF neg THEN i + 1 ELSE i
    IN  IF d > Len(t) \/ t[d] \notin JsonDigits THEN JFail
        ELSE LET e == IF t[d] = 48 THEN d + 1 ELSE DigitsEnd(t, d)
                 v == DigitsValue(t, d, e - 1)
             IN  JOk(Obj("int", IF neg THEN -v ELSE v), e)

RECURSIVE ParseValue(_, _)
RECURSIVE ParseMembers(_, _, _)
RECURSIVE ParseElements(_, _, _)

\* The members of an object from the key at t[i] on; d holds those before.
ParseMembers(t, i, d) ==
    IF i > Len(t) \/ t[i] # 34 THEN JFail
    ELSE LET k == ParseString(t, i)
         IN  IF ~k.ok THEN JFail
             ELSE LET c == SkipWs(t, k.next)
                  IN  IF c > Len(t) \/ t[c] # 58 THEN JFail
                      ELSE LET v == ParseValue(t, SkipWs(t, c + 1))
                           IN  IF ~v.ok THEN JFail
                               ELSE LET key == k.val.f
                                        d2 == [x \in DOMAIN d \cup {key} |->
                                                  IF x = key THEN v.val ELSE d[x]]
                                        e == SkipWs(t, v.next)
                                    IN  IF e > Len(t) THEN JFail
                                        ELSE IF t[e] = 125 THEN JOk(Obj("dict", d2), e + 1)
                                        ELSE IF t[e] = 44
                                        THEN ParseMembers(t, SkipWs(t, e + 1), d2)
                                        ELSE JFail

\* The elements of an array from the value at t[i] on; l holds those before.
ParseElements(t, i, l) ==
    LET v == ParseValue(t, i)
    IN  IF ~v.ok THEN JFail
        ELSE LET e == SkipWs(t, v.next)
             IN  IF e > Len(t) THEN JFail
                 ELSE IF t[e] = 93 THEN JOk(Obj("list", Append(l, v.val)), e + 1)
                 ELSE IF t[e] = 44
                 THEN ParseElements(t, SkipWs(t, e + 1), Append(l, v.val))
                 ELSE JFail

ParseValue(t, i) ==
    IF i > Len(t) THEN JFail
    ELSE CASE t[i] = 34 -> ParseString(t, i)
           [] t[i] = 123 ->
                LET j == SkipWs(t, i + 1)
                IN  IF j <= Len(t) /\ t[j] = 125 THEN JOk(Obj("dict", EmptyDict), j + 1)
                    ELSE ParseMembers(t, j, EmptyDict)
           [] t[i] = 91 ->
                LET j == SkipWs(t, i + 1)
                IN  IF j <= Len(t) /\ t[j] = 93 THEN JOk(Obj("list", << >>), j + 1)
                    ELSE ParseElements(t, j, << >>)
           [] t[i] = 45 \/ t[i] \in JsonDigits -> ParseNumber(t, i)
           [] Matches(t, i, << 116, 114, 117, 101 >>) -> JOk(Obj("bool", TRUE), i + 4)
           [] Matches(t, i, << 102, 97, 108, 115, 101 >>) -> JOk(Obj("bool", FALSE), i + 5)
           [] Matches(t, i, << 110, 117, 108, 108 >>) -> JOk(NoObj, i + 4)
           [] OTHER -> JFail

json_loads(t) ==
    LET r == ParseValue(t, SkipWs(t, 1))
    IN  IF ~r.ok THEN Raise("JSONDecodeError")
        ELSE IF SkipWs(t, r.next) <= Len(t) THEN Raise("JSONDecodeError")
        ELSE Ok(r.val)

\* "ssid", "password", "raw"
K_ssid == << 115, 115, 105, 100 >>
K_password == << 112, 97, 115, 115, 119, 111, 114, 100 >>
K_raw == << 114, 97, 119 >>

\* json.dumps of the dict set_wifi builds: its keys in insertion order, each
\* followed by ': ' and the quoted value, joined by ', '.  The values are
\* strs of printable ASCII without quote or backslash.
RECURSIVE DumpItems(_)
DumpItems(items) ==
    IF items = << >> THEN << >>
    ELSE << 34 >> \o Head(items)[1] \o << 34, 58, 32, 34 >> \o Head(items)[2] \o << 34 >>
         \o (IF Len(items) > 1 THEN << 44, 32 >> ELSE << >>)
         \o DumpItems(Tail(items))

json_dumps(items) == << 123 >> \o DumpItems(items) \o << 125 >>

\* ------------------------------------------------ ZellenradschleuseClient
\* A GATT request: read_gatt_char(uuid) or write_gatt_char(uuid, data), and
\* how the collaborator answered it: "pending", "ok" or the error it raised.
ReadReq(uuid) == [kind |-> "read", uuid |-> uuid, data |-> << >>, outcome |-> "pending"]
WriteReq(uuid, b) == [kind |-> "write", uuid |-> uuid, data |-> b, outcome |-> "pending"]
NoReq == [kind |-> "none", uuid |-> UUID(<< >>), data |-> << >>, outcome |-> "none"]

\* What a method does up to its next GATT request or its end: the error it
\* raises, the value it returns (ret), the record it holds (rec) and the
\* request it issues next (NoReq when it ends).
Step(e, ret, rec, req) == [err |-> e, ret |-> ret, rec |-> rec, req |-> req]
Fails(e) == Step(e, NoObj, NoObj, NoReq)
Returns(ret, rec) == Step("none", ret, rec, NoReq)
Issues(req, rec) == Step("none", NoObj, rec, req)

\* device_type: data.decode(errors='replace')
device_type(data) == Returns(Str(decode(data, "replace").val), NoObj)

\* A read method returns the record from_bytes made of the payload, or
\* raises what from_bytes raised.
Decoded(r) == IF r.err # "none" THEN Fails(r.err) ELSE Returns(NoObj, r.val)

\* A write method sends the bytes to_bytes made of value, or raises what
\* to_bytes raised.
Sends(uuid, b, value) ==
    IF b.err # "none" THEN Fails(b.err) ELSE Issues(WriteReq(uuid, b.data), value)

read_system_state(data) == Decoded(SystemState_from_bytes(data))

\* The argument value.to_bytes() is evaluated before write_gatt_char is
\* called.
write_system_state(value) ==
    Sends(SYSTEM_STATE_UUID, SystemState_to_bytes(value), value)

read_blower_pid(data) == Decoded(BlowerPID_from_bytes(data))

write_blower_pid(value) ==
    Sends(BLOWER_PID_UUID, BlowerPID_to_bytes(value), value)

read_manual_control(data) == Decoded(ManualControl_from_bytes(data))

write_manual_control(value) ==
    Sends(MANUAL_CONTROL_UUID, ManualControl_to_bytes(value), value)

\* [c.to_tuple() for c in ss.rgb] of the SystemState read as ss.
Tuples(ss) ==
    IF ss.err # "none" THEN ss
    ELSE Returns(Obj("list", [i \in 1..Len(ss.rec.f.rgb) |-> to_tuple(ss.rec.f.rgb[i])]),
                 NoObj)

read_rgb_led(data) == Tuples(read_system_state(data))

\* r, g, b = list(c) for every colour: ValueError for a colour that has not
\* 3 components.
Unpacks(colors) == \A i \in 1..Len(colors) : Len(colors[i]) = 3

\* ss.rgb = rgb_objs in the SystemState read as ss (base when the read
\* raised), then write_system_state(ss).
Inject(ss, base, colors) ==
    IF ss.err # "none" /\ base = NoObj THEN ss
    ELSE IF ~Unpacks(colors) THEN Fails("ValueError")
    ELSE write_system_state([(IF base = NoObj THEN ss.rec ELSE base) EXCEPT !.f.rgb = colors])

\* Variant: a payload that does not decode is replaced by a record of
\* sentinels.
write_rgb_led_IgnoreSize(data, colors) ==
    IF Len(data) = 41
    THEN Inject(read_system_state(data), NoObj, colors)
    ELSE Inject(Fails("ValueError"), partial_system_state(EmptyDict).val, colors)

\* Variant: the colours are written in a record of sentinels.
write_rgb_led_Sentinels(data, colors) ==
    IF Len(data) = 41
    THEN Inject(Returns(NoObj, NoObj), partial_system_state(EmptyDict).val, colors)
    ELSE Fails("ValueError")

\* write_rgb_led after its read returned data.
write_rgb_led(data, colors) == Inject(read_system_state(data), NoObj, colors)

\* wifi_status after its read returned data, as [err, val].
\* except json.JSONDecodeError: return {"raw": data.decode(errors='replace')}
Loaded(j, data) ==
    IF j.err = "JSONDecodeError"
    THEN Ok(Obj("dict", [k \in {K_raw} |-> Str(decode(data, "replace").val)]))
    ELSE j

\* json.loads(data.decode()) for the text t that data.decode() made.
Parsed(t, data) ==
    IF t.err # "none" THEN Raise(t.err) ELSE Loaded(json_loads(t.val), data)

wifi_status(data) == Parsed(decode(data, "strict"), data)

\* The dict set_wifi sends; None is NoObj.
set_wifi(ssid, password) ==
    LET items == (IF ssid # NoObj THEN << << K_ssid, ssid.f >> >> ELSE << >>)
                 \o (IF password # NoObj THEN << << K_password, password.f >> >> ELSE << >>)
    IN  Issues(WriteReq(WIFI_UUID, encode(json_dumps(items))), NoObj)

start_ota(url) == Issues(WriteReq(OTA_UUID, encode(url.f)), NoObj)

ReadMethods == {"device_type", "read_system_state", "read_blower_pid",
                "read_manual_control", "read_rgb_led", "wifi_status"}
WriteMethods == {"write_system_state", "write_blower_pid", "write_manual_control",
                 "set_wifi", "start_ota"}
Methods == ReadMethods \cup WriteMethods \cup {"write_rgb_led"}

\* Variant: read_blower_pid reads the SystemState characteristic.
Call_WrongCharacteristic(name, a) ==
    CASE name = "device_type" -> Issues(ReadReq(DEVICE_TYPE_UUID), NoObj)
      [] name = "read_system_state" -> Issues(ReadReq(SYSTEM_STATE_UUID), NoObj)
      [] name = "write_system_state" -> write_system_state(a)
      [] name = "read_blower_pid" -> Issues(ReadReq(SYSTEM_STATE_UUID), NoObj)
      [] name = "write_blower_pid" -> write_blower_pid(a)
      [] name = "read_manual_control" -> Issues(ReadReq(MANUAL_CONTROL_UUID), NoObj)
      [] name = "write_manual_control" -> write_manual_control(a)
      [] name = "read_rgb_led" -> Issues(ReadReq(SYSTEM_STATE_UUID), NoObj)
      [] name = "write_rgb_led" -> Issues(ReadReq(SYSTEM_STATE_UUID), NoObj)
      [] name = "wifi_status" -> Issues(ReadReq(WIFI_UUID), NoObj)
      [] name = "set_wifi" -> set_wifi(a.f[1], a.f[2])
      [] name = "start_ota" -> start_ota(a)

\* A method from its call to its first GATT request.
Call(name, a) ==
    CASE name = "device_type" -> Issues(ReadReq(DEVICE_TYPE_UUID), NoObj)
      [] name = "read_system_state" -> Issues(ReadReq(SYSTEM_STATE_UUID), NoObj)
      [] name = "write_system_state" -> write_system_state(a)
      [] name = "read_blower_pid" -> Issues(ReadReq(BLOWER_PID_UUID), NoObj)
      [] name = "write_blower_pid" -> write_blower_pid(a)
      [] name = "read_manual_control" -> Issues(ReadReq(MANUAL_CONTROL_UUID), NoObj)
      [] name = "write_manual_control" -> write_manual_control(a)
      [] name = "read_rgb_led" -> Issues(ReadReq(SYSTEM_STATE_UUID), NoObj)
      [] name = "write_rgb_led" -> Issues(ReadReq(SYSTEM_STATE_UUID), NoObj)
      [] name = "wifi_status" -> Issues(ReadReq(WIFI_UUID), NoObj)
      [] name = "set_wifi" -> set_wifi(a.f[1], a.f[2])
      [] name = "start_ota" -> start_ota(a)

\* wifi_status returns the value r holds or raises the error r holds.
Answer(r) == IF r.err # "none" THEN Fails(r.err) ELSE Returns(r.val, NoObj)

\* A method from the data its read returned to its next GATT request or its
\* end.
AfterRead(name, a, data) ==
    CASE name = "device_type" -> device_type(data)
      [] name = "read_system_state" -> read_system_state(data)
      [] name = "read_blower_pid" -> read_blower_pid(data)
      [] name = "read_manual_control" -> read_manual_control(data)
      [] name = "read_rgb_led" -> read_rgb_led(data)
      [] name = "write_rgb_led" -> write_rgb_led(data, a.f)
      [] name = "wifi_status" -> Answer(wifi_status(data))

\* ---------------------------------------------------------------- bounds
\* Keywords one builder call passes.
MaxKw == 1
\* Fields of a directly constructed record that differ from its template.
MaxOverride == 1
\* Bytes a device payload may exceed the largest wire size by.
MaxExtra == 1
\* Longest byte list handed to _uuid_from_le_bytes.
MaxUuidLen == 17
\* Client calls in one run.
MaxCalls == 2

\* BleakClient objects made in one run.
MaxLinks == 2

\* Calls of AsyncLoopThread.run and of AsyncLoopThread.close in one run.
MaxRuns == 2
MaxCloses == 2

\* ---------------------------------------------------------------- inputs
\* The wire kind of each dataclass field.
Kind(cls, field) ==
    CASE cls = "SystemState" ->
           [state |-> "B", pressure1 |-> "f", pressure2 |-> "f", absPressure |-> "f",
            motorCurrent |-> "f", getriebemotorPWM |-> "H", vibrationsmotorPWM |-> "H",
            blowerPWM |-> "H", blowerPulseRateRPM |-> "f", rgb |-> "rgb",
            encoderCount |-> "i", blowerPulseCount |-> "I"][field]
      [] cls = "ManualControl" ->
           [blower_rpm |-> "f", getriebemotor_pwm |-> "f", vibrationsmotor_pwm |-> "f",
            enable_getriebemotor_nvs |-> "B", feeder_seconds |-> "f",
            reserved |-> "bytes"][field]
      [] cls = "BlowerPID" ->
           [kp |-> "f", ki |-> "f", kd |-> "f", target_frequency |-> "f",
            current_frequency |-> "f", last_error |-> "f", integral_sum |-> "f",
            current_pwm |-> "H", manual_pwm_value |-> "H", min_pwm_output |-> "H",
            max_pwm_output |-> "H", update_interval_ms |-> "I", flags |-> "I",
            last_update_tick |-> "I", feed_forward |-> "f",
            derivative_filter_hz |-> "f", reserved_floats |-> "floats"][field]

\* Python floats a caller may hold: 1.0, 1.1 (inexact as a single),
\* -(1 + 3 * 2^-24) (halfway between two singles), NaN, inf, 1e39 and the
\* double half an ulp above the largest single (both too large for a single),
\* 1e-42 (subnormal as a single).
FloatArgs ==
    << Flt("fin", 0, 0, 0, 0, 0),
       Flt("fin", 0, 0, 838860, 1, 1),
       Flt("fin", 1, 0, 1, 1, 0),
       MathNan,
       PosInf,
       Flt("fin", 0, 129, 3937343, 1, 1),
       Flt("fin", 0, 127, 8388607, 1, 0),
       Flt("fin", 0, -140, 3303405, 0, 1) >>

\* Values a caller may pass for a field of each kind, including ints beyond
\* the field's width and containers of the wrong length.
ArgValues(kind) ==
    CASE kind = "f" -> FloatArgs
      [] kind = "B" -> << 0, 3, 255, 256 >>
      [] kind = "H" -> << 0, 1023, 65535, 65536, -1 >>
      [] kind = "i" -> << W(0, 42), W(-32768, 0), W(32767, 65535), W(32768, 0), W(-1, 65535) >>
      [] kind = "I" -> << W(0, 9999), W(65535, 65535), W(65536, 0), W(-1, 65535) >>
      [] kind = "bytes" ->
           << << 1, 2, 3, 4, 5, 6, 7, 8 >>, << 1, 2 >>, << >>,
              << 1, 2, 3, 4, 5, 6, 7, 8, 9, 10 >>, << 1, 300 >> >>
      [] kind = "floats" ->
           << << FloatArgs[1], FloatArgs[2], MathNan, PosInf >>,
              << FloatArgs[2] >>,
              << FloatArgs[1], FloatArgs[1], FloatArgs[1], FloatArgs[1], FloatArgs[2] >>,
              << MathNan, FloatArgs[6], MathNan, MathNan >> >>
      [] kind = "rgb" ->
           << << << 10, 20, 30 >>, << 40, 50, 60 >> >>,
              << << 255, 0, 0 >> >>,
              << >>,
              << << 1, 2, 3 >>, << 4, 5, 6 >>, << 7, 8, 9 >> >>,
              << << 256, 0, 0 >>, << 0, 0, 0 >> >>,
              << << 1, 2 >>, << 3, 4, 5 >> >> >>

\* The records of the unit tests (tests/test_structures.py).
TestRecord(cls) ==
    CASE cls = "SystemState" ->
           Obj("SystemState",
               [state |-> 3,
                pressure1 |-> Flt("fin", 0, 0, 838860, 1, 1),
                pressure2 |-> Flt("fin", 0, 1, 838860, 1, 1),
                absPressure |-> Flt("fin", 0, 1, 5452595, 0, 1),
                motorCurrent |-> Flt("fin", 0, 2, 838860, 1, 1),
                getriebemotorPWM |-> 123,
                vibrationsmotorPWM |-> 456,
                blowerPWM |-> 789,
                blowerPulseRateRPM |-> Flt("fin", 0, 10, 3903488, 0, 0),
                rgb |-> << << 10, 20, 30 >>, << 40, 50, 60 >> >>,
                encoderCount |-> W(0, 42),
                blowerPulseCount |-> W(0, 9999)])
      [] cls = "ManualControl" ->
           Obj("ManualControl",
               [blower_rpm |-> Flt("fin", 0, 10, 1441792, 0, 0),
                getriebemotor_pwm |-> Flt("fin", 0, 5, 6160384, 0, 0),
                vibrationsmotor_pwm |-> Flt("fin", 0, 6, 340787, 0, 1),
                enable_getriebemotor_nvs |-> 1,
                feeder_seconds |-> Flt("fin", 0, 2, 2097152, 0, 0),
                reserved |-> ManualControl_reserved])
      [] cls = "BlowerPID" ->
           Obj("BlowerPID",
               [kp |-> Flt("fin", 0, 0, 0, 0, 0),
                ki |-> Flt("fin", 0, -1, 0, 0, 0),
                kd |-> Flt("fin", 0, -4, 5033164, 1, 1),
                target_frequency |-> Flt("fin", 0, 6, 4718592, 0, 0),
                current_frequency |-> Flt("fin", 0, 6, 4063232, 0, 0),
                last_error |-> Flt("fin", 0, 2, 2097152, 0, 0),
                integral_sum |-> Flt("fin", 0, 3, 2097152, 0, 0),
                current_pwm |-> 111,
                manual_pwm_value |-> 222,
                min_pwm_output |-> 10,
                max_pwm_output |-> 1023,
                update_interval_ms |-> W(0, 50),
                flags |-> W(0, 3),
                last_update_tick |-> W(1, 57920),
                feed_forward |-> PosZero,
                derivative_filter_hz |-> Flt("fin", 0, 4, 4718592, 0, 0),
                reserved_floats |-> << MathNan, MathNan, MathNan, MathNan >>])

Fields(cls) == DOMAIN TestRecord(cls).f

\* A record whose fields all hold the same value per kind.
Uniform(cls, f, B, H, i, I, bytes, floats, rgb) ==
    Obj(cls, [x \in Fields(cls) |->
        CASE Kind(cls, x) = "f" -> f
          [] Kind(cls, x) = "B" -> B
          [] Kind(cls, x) = "H" -> H
          [] Kind(cls, x) = "i" -> i
          [] Kind(cls, x) = "I" -> I
          [] Kind(cls, x) = "bytes" -> bytes
          [] Kind(cls, x) = "floats" -> floats
          [] Kind(cls, x) = "rgb" -> rgb])

AllZero(cls) ==
    Uniform(cls, PosZero, 0, 0, W(0, 0), W(0, 0), Zeros(8),
            << PosZero, PosZero, PosZero, PosZero >>,
            << << 0, 0, 0 >>, << 0, 0, 0 >> >>)

\* Every field at the largest value of its wire type.
AllMax(cls) ==
    LET fmax == Flt("fin", 0, 127, 8388607, 0, 0)
    IN  Uniform(cls, fmax, 255, 65535, W(32767, 65535), W(65535, 65535),
                [i \in 1..8 |-> 255], << fmax, fmax, fmax, fmax >>,
                << << 255, 255, 255 >>, << 255, 255, 255 >> >>)

\* Every field that has a no-change sentinel holds it.
AllSentinel(cls) ==
    Uniform(cls, FLOAT_NO_CHANGE, 0, PWM_NO_CHANGE, ENCODER_NO_CHANGE, U32_NO_CHANGE,
            Zeros(8), [i \in 1..4 |-> FLOAT_NO_CHANGE],
            << << 255, 255, 255 >>, << 255, 255, 255 >> >>)

Templates(cls) == << TestRecord(cls), AllZero(cls), AllMax(cls), AllSentinel(cls) >>

\* Keyword arguments: at most n fields of cls, each with one of its values.
\* pick[x] is the index of the value in ArgValues.
KwOf(cls, S, pick) == [x \in S |-> ArgValues(Kind(cls, x))[pick[x]]]

Picks(cls, S) ==
    {pick \in [S -> 1..8] : \A x \in S : pick[x] <= Len(ArgValues(Kind(cls, x)))}

FieldSets(cls, n) == {S \in SUBSET Fields(cls) : Cardinality(S) <= n}

\* A bytes object: every element is in range(256).
IsBytes(v) == \A i \in 1..Len(v) : v[i] \in 0..255

\* An RGB list a dataclass can hold: RGB instances have three components.
IsRgbList(v) == \A i \in 1..Len(v) : Len(v[i]) = 3

\* Payloads a device may send: the encodings of the valid templates, cut or
\* extended to any length up to MaxExtra bytes beyond the largest record.
Resize(b, n) == [i \in 1..n |-> IF i <= Len(b) THEN b[i] ELSE 165]

MaxSize == StructSize(BLOWER_PID_STRUCT)

\* Bit patterns of singles that no Python float of FloatArgs encodes to: a
\* signalling NaN, a quiet NaN with a payload, a negative signalling NaN, the
\* all-ones NaN, -0.0, the smallest subnormal and the largest subnormal.
RawSingles ==
    << << 1, 0, 128, 127 >>, << 1, 0, 192, 127 >>, << 1, 0, 128, 255 >>,
       << 255, 255, 255, 255 >>, << 0, 0, 0, 128 >>, << 1, 0, 0, 0 >>,
       << 255, 255, 127, 0 >> >>

\* b with the bytes p written at offset o.
Patch(b, o, p) == [i \in 1..Len(b) |-> IF i > o /\ i <= o + Len(p) THEN p[i - o] ELSE b[i]]

\* Offsets of the first and the last float of each record.
FloatSlots(c) ==
    CASE c = "SystemState" -> << 1, 23 >>
      [] c = "ManualControl" -> << 0, 13 >>
      [] c = "BlowerPID" -> << 0, 68 >>

DevicePayloads ==
    {Resize(to_bytes(Templates(c)[t]).data, n) :
        c \in Classes, t \in 1..4, n \in 0..(MaxSize + MaxExtra)}
    \cup
    {Patch(to_bytes(TestRecord(c)).data, FloatSlots(c)[k], RawSingles[i]) :
        c \in Classes, k \in 1..2, i \in 1..Len(RawSingles)}

\* Byte lists handed to _uuid_from_le_bytes: the firmware tables, cut or
\* extended to any length up to MaxUuidLen, and one with an element that is
\* no byte.
ByteLists ==
    {Resize(FirmwareTables[i], n) : i \in 1..Len(FirmwareTables), n \in 0..MaxUuidLen}
    \cup {[SERVICE_BYTES EXCEPT ![3] = 300]}

\* Texts of the device and the callers, as code points.
\* "ZRS"
ZRS_TEXT == << 90, 82, 83 >>
\* {"ssid": "a"}
WIFI_JSON == << 123, 34, 115, 115, 105, 100, 34, 58, 32, 34, 97, 34, 125 >>
\* nope
WIFI_NOT_JSON == << 110, 111, 112, 101 >>
\* {"ssid": "a"
WIFI_CUT == << 123, 34, 115, 115, 105, 100, 34, 58, 32, 34, 97, 34 >>
\* "net"
SSID_TEXT == << 110, 101, 116 >>
\* "pw"
PASSWORD_TEXT == << 112, 119 >>
\* "http://x/fw.bin"
URL_TEXT == << 104, 116, 116, 112, 58, 47, 47, 120, 47, 102, 119, 46, 98, 105, 110 >>

\* -------------------------------------------------- the device and calls
\* The characteristics of the device.
CharUuids ==
    {DEVICE_TYPE_UUID, SYSTEM_STATE_UUID, RGB_LED_UUID, BLOWER_PID_UUID,
     WIFI_UUID, OTA_UUID, MANUAL_CONTROL_UUID}

\* A device whose characteristics hold the given values; the OTA trigger is
\* empty and the legacy RGB characteristic holds two dark LEDs.
Device(dt, ss, pid, wifi, mc) ==
    [u \in CharUuids |->
        CASE u = DEVICE_TYPE_UUID -> dt
          [] u = SYSTEM_STATE_UUID -> ss
          [] u = BLOWER_PID_UUID -> pid
          [] u = WIFI_UUID -> wifi
          [] u = MANUAL_CONTROL_UUID -> mc
          [] u = OTA_UUID -> << >>
          [] u = RGB_LED_UUID -> Zeros(6)]

Encoded(o) == to_bytes(o).data

\* The device of the unit tests' records, with a JSON Wi-Fi status.
PlainDevice ==
    Device(ZRS_TEXT,
           Encoded(TestRecord("SystemState")), Encoded(TestRecord("BlowerPID")),
           WIFI_JSON, Encoded(TestRecord("ManualControl")))

\* Devices a client may be connected to: one of the unit tests' records with
\* a JSON Wi-Fi status; one of no-change sentinels whose strings are not
\* UTF-8 or not JSON; one whose records have the wrong size; one whose floats
\* are NaNs with payloads; one of largest values with a cut-off JSON text;
\* one of zeros with a JSON number.
Devices ==
    { PlainDevice,
      Device(<< 90, 255, 83 >>,
             Encoded(AllSentinel("SystemState")), Encoded(AllSentinel("BlowerPID")),
             WIFI_NOT_JSON, Encoded(AllSentinel("ManualControl"))),
      Device(<< >>,
             Resize(Encoded(TestRecord("SystemState")), 40),
             Resize(Encoded(TestRecord("BlowerPID")), 73),
             << 255 >>,
             Resize(Encoded(TestRecord("ManualControl")), 24)),
      Device(ZRS_TEXT,
             Patch(Encoded(TestRecord("SystemState")), 1, RawSingles[1]),
             Patch(Encoded(TestRecord("BlowerPID")), 68, RawSingles[2]),
             << 34, 195 >>,
             Patch(Encoded(TestRecord("ManualControl")), 0, RawSingles[3])),
      Device(ZRS_TEXT,
             Encoded(AllMax("SystemState")), Encoded(AllMax("BlowerPID")),
             WIFI_CUT, Encoded(AllMax("ManualControl"))),
      Device(ZRS_TEXT,
             Encoded(AllZero("SystemState")), Encoded(AllZero("BlowerPID")),
             << 49, 50 >>, Encoded(AllZero("ManualControl"))) }

\* Records a caller may hand to a write method: the templates, and one that
\* does not encode.
WriteArgs(c) ==
    {Templates(c)[t] : t \in 1..4}
    \cup (CASE c = "SystemState" ->
                 {[TestRecord(c) EXCEPT !.f.state = 256],
                  [TestRecord(c) EXCEPT !.f.rgb = << << 255, 0, 0 >> >>]}
            [] c = "BlowerPID" ->
                 {[TestRecord(c) EXCEPT !.f.reserved_floats = << MathNan >>]}
            [] c = "ManualControl" ->
                 {[TestRecord(c) EXCEPT !.f.reserved = << 1, 2 >>],
                  [TestRecord(c) EXCEPT !.f.blower_rpm = FloatArgs[6]]})

\* Colour lists a caller may hand to write_rgb_led.
ColorArgs ==
    { << << 1, 2, 3 >>, << 4, 5, 6 >> >>,
      << << 255, 255, 255 >>, << 0, 0, 0 >> >>,
      << << 7, 8, 9 >> >>,
      << << 1, 2, 3 >>, << 4, 5, 6 >>, << 7, 8, 9 >> >>,
      << << 1, 2 >>, << 4, 5, 6 >> >>,
      << << 256, 0, 0 >>, << 0, 0, 0 >> >>,
      << >> }

\* None or a str, for ssid and password.
SsidArgs == {NoObj, Str(SSID_TEXT)}
PasswordArgs == {NoObj, Str(PASSWORD_TEXT)}
UrlArgs == {Str(URL_TEXT)}

\* Errors the GATT collaborator may raise.
TransportErrors == {"BleakError", "TimeoutError"}

\* ------------------------------------------------- connection and loop thread
\* BaseMetexonDevice after __init__: no BleakClient and no loop thread. The
\* fields hold the index of the object in links and in loops, 0 for None.
NoDevice == [client |-> 0, loop_thread |-> 0]

\* AsyncLoopThread after __init__: the loop runs in its thread, nothing is
\* scheduled, no coroutine was submitted.
\*   closed    _closed
\*   state     "running" while the thread is in run_forever, "stopped" once
\*             run_forever has returned and the thread has ended, "closed"
\*             after loop.close()
\*   stopping  loop.stop() was called in the iteration in progress
\*   ready     the callbacks scheduled in the loop, in order
\*   todo      how many of them the iteration in progress still runs
\*   futs      the coroutines submitted to the loop, in order
NewLoop == [closed |-> FALSE, state |-> "running", stopping |-> FALSE,
            ready |-> << >>, todo |-> 0, futs |-> << >>]

\* A thread that calls into an AsyncLoopThread, between calls.
\*   pc    its position in the call in progress
\*   coro  the coroutine it was called with
\*   id    the coroutine it submitted (index in futs), 0 for none
\*   n     calls it has made
\*   out   how its last call ended
IdleCaller == [pc |-> "idle", coro |-> "none", id |-> 0, n |-> 0, out |-> "none"]

\* The thread that calls run() and the thread that calls close().
NoCallers == [run |-> IdleCaller, close |-> IdleCaller]

\* ----------------------------------------------------------------- state
\* Every operation is a pure function of its arguments, so a run is one chain
\* of calls on the value in hand, starting from a fresh input.
VARIABLES
    op,     \* the operation that ran last
    cls,    \* the class it was called on
    kw,     \* keyword arguments of the builder call that made rec
    rec,    \* the record in hand, NoObj when the last call raised
    src,    \* the record that data encodes, NoObj for a device payload
    data,   \* the byte buffer in hand
    json,   \* result of the last to_json
    err,    \* error the last operation raised, "none" when it returned
    ret,    \* value the last operation returned when it is no record, NoObj
            \* when it returned none
    pc,         \* position of the client call in progress, "idle" between calls
    arg,        \* argument of the last client call
    requests,   \* GATT requests the last client call issued, in order
    chars,      \* the device: the value of each characteristic, by UUID
    ncalls,     \* client calls made so far
    dev,        \* the device object's _client and _loop_thread
    links,      \* the BleakClient objects made so far: the state of each
    loops,      \* the AsyncLoopThread objects made so far
    thr         \* the threads calling into an AsyncLoopThread

\* State of a ZellenradschleuseClient and its device; the codec calls leave
\* it alone.
client == << pc, arg, requests, chars, ncalls, dev, links, loops, thr >>

\* The connection: the device object's fields and the objects they name.
conn == << dev, links, loops, thr >>

vars == << op, cls, kw, rec, src, data, json, err, ret, pc, arg, requests, chars, ncalls,
           dev, links, loops, thr >>

Makers == {"construct", "partial_system_state", "partial_manual_control",
           "partial_blower_pid", "from_bytes"}

BuilderName(c) ==
    CASE c = "SystemState" -> "partial_system_state"
      [] c = "ManualControl" -> "partial_manual_control"
      [] c = "BlowerPID" -> "partial_blower_pid"

Init ==
    /\ op = "init"
    /\ cls = "None"
    /\ kw = EmptyDict
    /\ rec = NoObj
    /\ src = NoObj
    /\ data = << >>
    /\ json = EmptyDict
    /\ err = "none"
    /\ ret = NoObj
    /\ pc = "idle"
    /\ arg = NoObj
    /\ requests = << >>
    /\ chars = EmptyDict
    /\ ncalls = 0
    /\ dev = NoDevice
    /\ links = << >>
    /\ loops = << >>
    /\ thr = NoCallers

\* SystemState(...), ManualControl(...), BlowerPID(...): the dataclass
\* constructor stores its arguments as they are.
Construct ==
    /\ op = "init"
    /\ \E c \in Classes, t \in 1..4 :
      \E S \in FieldSets(c, MaxOverride) :
      \E pick \in Picks(c, S) :
        LET o == KwOf(c, S, pick)
            base == Templates(c)[t]
        IN  /\ "rgb" \in S => IsRgbList(o["rgb"])
            /\ "reserved" \in S => IsBytes(o["reserved"])
            /\ op' = "construct"
            /\ cls' = c
            /\ kw' = EmptyDict
            /\ rec' = Obj(c, [x \in Fields(c) |-> IF x \in S THEN o[x] ELSE base.f[x]])
            /\ src' = NoObj
            /\ data' = << >>
            /\ json' = EmptyDict
            /\ err' = "none"
            /\ ret' = NoObj
            /\ UNCHANGED client

\* partial_system_state / partial_manual_control / partial_blower_pid(**kwargs)
Partial ==
    /\ op = "init"
    /\ \E c \in Classes :
      \E S \in FieldSets(c, MaxKw) :
      \E pick \in Picks(c, S) :
        LET r == partial(c, KwOf(c, S, pick))
        IN  /\ op' = BuilderName(c)
            /\ cls' = c
            /\ kw' = KwOf(c, S, pick)
            /\ rec' = r.val
            /\ err' = r.err
            /\ src' = NoObj
            /\ data' = << >>
            /\ json' = EmptyDict
            /\ ret' = NoObj
            /\ UNCHANGED client

\* Keywords that name no field of the builder's record type, with the value
\* 2.0: a misspelt field, and a field of another record type.
UnknownKwargs(c) ==
    CASE c = "SystemState" -> {[reserved |-> Flt("fin", 0, 1, 0, 0, 0)],
                               [Pressure1 |-> Flt("fin", 0, 1, 0, 0, 0)]}
      [] c = "ManualControl" -> {[blowerPWM |-> Flt("fin", 0, 1, 0, 0, 0)],
                                 [blower_RPM |-> Flt("fin", 0, 1, 0, 0, 0)]}
      [] c = "BlowerPID" -> {[Kp |-> Flt("fin", 0, 1, 0, 0, 0)],
                             [rgb |-> Flt("fin", 0, 1, 0, 0, 0)]}

\* A builder called with the keywords of known and one keyword that names
\* no field, e.g. partial_blower_pid(Kp=2.0).
PartialUnknown ==
    /\ op = "init"
    /\ \E c \in Classes :
      \E S \in FieldSets(c, MaxKw) :
      \E pick \in Picks(c, S) :
      \E u \in UnknownKwargs(c) :
      \E kwargs \in {[x \in S \cup DOMAIN u |->
                        IF x \in S THEN KwOf(c, S, pick)[x] ELSE u[x]]} :
      \E r \in {partial(c, kwargs)} :
            /\ cls' = c
            /\ kw' = kwargs
            /\ rec' = r.val
            /\ err' = r.err
    /\ op' = "partial(**unknown)"
    /\ src' = NoObj
    /\ data' = << >>
    /\ json' = EmptyDict
    /\ ret' = NoObj
    /\ UNCHANGED client

\* rec.to_bytes()
ToBytes ==
    /\ op \in Makers
    /\ rec # NoObj
    /\ LET r == to_bytes(rec)
       IN  /\ data' = r.data
           /\ err' = r.err
    /\ src' = rec
    /\ op' = "to_bytes"
    /\ UNCHANGED << cls, kw, rec, json, ret >>
    /\ UNCHANGED client

\* A GATT read returns a payload.
ReadGattChar ==
    /\ op = "init"
    /\ \E b \in DevicePayloads :
        /\ op' = "read_gatt_char"
        /\ cls' = "None"
        /\ data' = b
        /\ src' = NoObj
        /\ rec' = NoObj
        /\ kw' = EmptyDict
        /\ json' = EmptyDict
        /\ err' = "none"
        /\ ret' = NoObj
        /\ UNCHANGED client

\* _uuid_from_le_bytes(byte_list)
UuidFromLeBytes ==
    /\ op = "init"
    /\ \E byte_list \in ByteLists :
         LET r == uuid_from_le_bytes(byte_list)
         IN  /\ data' = byte_list
             /\ ret' = r.val
             /\ err' = r.err
    /\ op' = "_uuid_from_le_bytes"
    /\ cls' = "None"
    /\ rec' = NoObj
    /\ src' = NoObj
    /\ kw' = EmptyDict
    /\ json' = EmptyDict
    /\ UNCHANGED client

\* cls.from_bytes(data)
FromBytes ==
    /\ op \in {"to_bytes", "read_gatt_char"}
    /\ err = "none"
    /\ \E c \in Classes :
         LET r == from_bytes(c, data)
         IN  /\ cls' = c
             /\ rec' = r.val
             /\ err' = r.err
    /\ op' = "from_bytes"
    /\ kw' = EmptyDict
    /\ UNCHANGED << src, data, json, ret >>
    /\ UNCHANGED client

\* rec.to_json()
ToJson ==
    /\ op \in Makers
    /\ rec # NoObj
    /\ LET r == to_json(rec)
       IN  /\ json' = IF r.err = "none" THEN r.val ELSE EmptyDict
           /\ err' = r.err
    /\ op' = "to_json"
    /\ UNCHANGED << cls, kw, rec, src, data, ret >>
    /\ UNCHANGED client

\* cls.from_json(rec.to_json()); src keeps the record the projection was
\* made of.
FromJson ==
    /\ op = "to_json"
    /\ err = "none"
    /\ \E r \in {from_json(cls, json)} :
         /\ rec' = r.val
         /\ err' = r.err
    /\ src' = rec
    /\ op' = "from_json"
    /\ UNCHANGED << cls, kw, data, json, ret >>
    /\ UNCHANGED client

Next ==
    \/ Construct
    \/ Partial
    \/ PartialUnknown
    \/ ToBytes
    \/ ReadGattChar
    \/ FromBytes
    \/ ToJson
    \/ FromJson
    \/ UuidFromLeBytes

Spec == Init /\ [][Next]_vars

\* ------------------------------------------------------ the client's runs
\* A connected ZellenradschleuseClient (connect() has returned) and the
\* device it is connected to.
ClientInit ==
    /\ op = "connect"
    /\ cls = "None"
    /\ kw = EmptyDict
    /\ rec = NoObj
    /\ src = NoObj
    /\ data = << >>
    /\ json = EmptyDict
    /\ err = "none"
    /\ ret = NoObj
    /\ pc = "idle"
    /\ arg = NoObj
    /\ requests = << >>
    /\ chars \in Devices
    /\ ncalls = 0
    /\ dev = [client |-> 1, loop_thread |-> 1]
    /\ links = << "open" >>
    /\ loops = << NewLoop >>
    /\ thr = NoCallers

\* The device object has a loop thread that takes coroutines: _run finds
\* _loop_thread set, and AsyncLoopThread.run finds it not closed.
LoopUsable == dev.loop_thread # 0 /\ ~loops[dev.loop_thread].closed

\* The first step st of a method, on the device object as it is: the client
\* property raises RuntimeError when _client is None, before the arguments of
\* the request are evaluated; _run raises RuntimeError before it submits the
\* request when there is no loop thread or the loop thread is closed.
Guarded(st) ==
    IF dev.client = 0 THEN Fails("RuntimeError")
    ELSE IF st.req # NoReq /\ ~LoopUsable THEN Fails("RuntimeError")
    ELSE st

\* The caller calls method name with argument a: the method runs up to its
\* first GATT request, or raises before it issues one.
Invoke(name, a) ==
    /\ \E st \in {Guarded(Call(name, a))} :
           /\ err' = st.err
           /\ requests' = IF st.req = NoReq THEN << >> ELSE << st.req >>
           /\ pc' = IF st.req = NoReq THEN "idle" ELSE "gatt"
    /\ op' = name
    /\ arg' = a
    /\ ncalls' = ncalls + 1
    /\ rec' = NoObj
    /\ ret' = NoObj
    /\ data' = << >>
    /\ UNCHANGED << cls, kw, src, json, chars >>
    /\ UNCHANGED conn

\* No call is in progress and the run may make another.
Idle == pc = "idle" /\ ncalls < MaxCalls

DeviceType ==
    /\ Idle
    /\ Invoke("device_type", NoObj)

ReadSystemState ==
    /\ Idle
    /\ Invoke("read_system_state", NoObj)

WriteSystemState ==
    /\ Idle
    /\ \E value \in WriteArgs("SystemState") : Invoke("write_system_state", value)

ReadBlowerPid ==
    /\ Idle
    /\ Invoke("read_blower_pid", NoObj)

WriteBlowerPid ==
    /\ Idle
    /\ \E value \in WriteArgs("BlowerPID") : Invoke("write_blower_pid", value)

ReadManualControl ==
    /\ Idle
    /\ Invoke("read_manual_control", NoObj)

WriteManualControl ==
    /\ Idle
    /\ \E value \in WriteArgs("ManualControl") : Invoke("write_manual_control", value)

ReadRgbLed ==
    /\ Idle
    /\ Invoke("read_rgb_led", NoObj)

WriteRgbLed ==
    /\ Idle
    /\ \E colors \in ColorArgs : Invoke("write_rgb_led", Obj("list", colors))

WifiStatus ==
    /\ Idle
    /\ Invoke("wifi_status", NoObj)

SetWifi ==
    /\ Idle
    /\ \E ssid \in SsidArgs, password \in PasswordArgs :
         Invoke("set_wifi", Obj("tuple", << ssid, password >>))

StartOta ==
    /\ Idle
    /\ \E url \in UrlArgs : Invoke("start_ota", url)

\* The request in flight.
Pending == requests[Len(requests)]

Answered(outcome) == [requests EXCEPT ![Len(requests)].outcome = outcome]

\* The BleakClient the request in flight was sent on is connected.
LinkOpen == dev.client # 0 /\ links[dev.client] = "open"

\* The collaborator completes the read in flight with the characteristic's
\* value, and the method runs on to its next request or to its end.
GattRead ==
    /\ pc = "gatt"
    /\ LinkOpen
    /\ Pending.kind = "read"
    /\ \E st \in {AfterRead(op, arg, chars[Pending.uuid])} :
           /\ data' = chars[Pending.uuid]
           /\ err' = st.err
           /\ ret' = st.ret
           /\ rec' = st.rec
           /\ requests' = IF st.req = NoReq THEN Answered("ok")
                          ELSE Append(Answered("ok"), st.req)
           /\ pc' = IF st.req = NoReq THEN "idle" ELSE "gatt"
    /\ UNCHANGED << op, arg, ncalls, chars, cls, kw, src, json >>
    /\ UNCHANGED conn

\* The collaborator completes the write in flight: the device's record is
\* overwritten, and the method returns None.
GattWrite ==
    /\ pc = "gatt"
    /\ LinkOpen
    /\ Pending.kind = "write"
    /\ chars' = [chars EXCEPT ![Pending.uuid] = Pending.data]
    /\ requests' = Answered("ok")
    /\ pc' = "idle"
    /\ err' = "none"
    /\ ret' = NoObj
    /\ UNCHANGED << op, arg, ncalls, rec, data, cls, kw, src, json >>
    /\ UNCHANGED conn

\* The collaborator fails the request in flight: AsyncLoopThread.run raises
\* the error in the caller, which ends the method.
GattFail ==
    /\ pc = "gatt"
    /\ \E e \in TransportErrors :
        /\ requests' = Answered(e)
        /\ err' = e
    /\ pc' = "idle"
    /\ ret' = NoObj
    /\ rec' = NoObj
    /\ UNCHANGED << op, arg, ncalls, data, chars, cls, kw, src, json >>
    /\ UNCHANGED conn

\* The SystemState records the firmware, or a second client, puts in the
\* characteristic while a call is in progress.
DeviceStates == {Encoded(AllZero("SystemState")), Encoded(AllMax("SystemState"))}

\* The device's SystemState changes while a write of this client to it is
\* in flight: the firmware updates its measurements, or a second client
\* writes the characteristic. (A change that lands before a read is answered
\* is a device that holds the other record.)
DeviceUpdate ==
    /\ pc = "gatt"
    /\ Pending.kind = "write"
    /\ Pending.uuid = SYSTEM_STATE_UUID
    /\ \E b \in DeviceStates :
         /\ b # chars[SYSTEM_STATE_UUID]
         /\ chars' = [chars EXCEPT ![SYSTEM_STATE_UUID] = b]
    /\ UNCHANGED << op, arg, ncalls, requests, pc, rec, data, err, ret, cls, kw, src, json >>
    /\ UNCHANGED conn

ClientNext ==
    \/ DeviceType
    \/ ReadSystemState
    \/ WriteSystemState
    \/ ReadBlowerPid
    \/ WriteBlowerPid
    \/ ReadManualControl
    \/ WriteManualControl
    \/ ReadRgbLed
    \/ WriteRgbLed
    \/ WifiStatus
    \/ SetWifi
    \/ StartOta
    \/ GattRead
    \/ GattWrite
    \/ GattFail
    \/ DeviceUpdate

ClientSpec == ClientInit /\ [][ClientNext]_vars

\* ------------------------------------------------ the connection's life
\* What connect() and disconnect() leave behind: the device object's fields,
\* the BleakClient objects, the loop threads, and the error raised.
Left(d, k, l, e) == [dev |-> d, links |-> k, loops |-> l, err |-> e]

\* AsyncLoopThread.close() called from the thread that owns the device, with
\* no other thread calling in. A closed loop thread returns at once. Otherwise
\* _shutdown is submitted and stops the loop; the loop leaves run_forever
\* before it runs the callback that would complete the future close() waits
\* on, so result(timeout=2) raises TimeoutError; the finally clause sets
\* _closed, joins the thread and closes the loop, and the error goes on to
\* the caller.
close(l) ==
    IF l.closed THEN [loop |-> l, err |-> "none"]
    ELSE [loop |-> [l EXCEPT !.closed = TRUE, !.state = "closed"],
          err |-> "TimeoutError"]

\* connect(): returns at once when _client is set; else makes a loop thread
\* when there is none and runs _aconnect on it, which stores a new
\* BleakClient in _client and then enters it. enter is how __aenter__ ends:
\* "none" when the connection opens, else the error it raises.
connect(enter) ==
    IF dev.client # 0 THEN Left(dev, links, loops, "none")
    ELSE LET made == dev.loop_thread = 0
             ls == IF made THEN Append(loops, NewLoop) ELSE loops
             lt == IF made THEN Len(loops) + 1 ELSE dev.loop_thread
         IN  IF ls[lt].closed
             THEN Left([dev EXCEPT !.loop_thread = lt], links, ls, "RuntimeError")
             ELSE Left([client |-> Len(links) + 1, loop_thread |-> lt],
                       Append(links, IF enter = "none" THEN "open" ELSE "new"),
                       ls, enter)

\* disconnect(): when _client is set, runs _adisconnect, which leaves the
\* BleakClient and then clears _client; then, when _loop_thread is set,
\* closes it and clears _loop_thread. An error raised on the way ends the
\* call there. exit is how __aexit__ ends.
disconnect(exit) ==
    LET ran == dev.client # 0
        e1 == IF ~ran THEN "none"
              ELSE IF ~LoopUsable THEN "RuntimeError"
              ELSE exit
        d1 == IF ran THEN [dev EXCEPT !.client = 0] ELSE dev
        k1 == IF ran THEN [links EXCEPT ![dev.client] = "closed"] ELSE links
    IN  IF e1 # "none" THEN Left(dev, links, loops, e1)
        ELSE IF d1.loop_thread = 0 THEN Left(d1, k1, loops, "none")
        ELSE LET c == close(loops[d1.loop_thread])
                 l1 == [loops EXCEPT ![d1.loop_thread] = c.loop]
             IN  IF c.err # "none" THEN Left(d1, k1, l1, c.err)
                 ELSE Left([d1 EXCEPT !.loop_thread = 0], k1, l1, "none")

\* The caller has no call in progress.
Between == pc = "idle"

\* What a call of connect() or disconnect() leaves of the last client call.
Lifecycle(name, st) ==
    /\ op' = name
    /\ dev' = st.dev
    /\ links' = st.links
    /\ loops' = st.loops
    /\ err' = st.err
    /\ requests' = << >>
    /\ arg' = NoObj
    /\ rec' = NoObj
    /\ ret' = NoObj
    /\ data' = << >>
    /\ UNCHANGED << cls, kw, src, json, pc, chars, ncalls, thr >>

\* The caller calls connect(); the collaborator opens the connection or
\* raises.
Connect ==
    /\ Between
    /\ Len(links) < MaxLinks
    /\ \E enter \in {"none"} \cup TransportErrors :
         \E st \in {connect(enter)} : Lifecycle("connect", st)

\* The caller calls disconnect(); the collaborator closes the connection or
\* raises.
Disconnect ==
    /\ Between
    /\ \E exit \in {"none"} \cup TransportErrors :
         \E st \in {disconnect(exit)} : Lifecycle("disconnect", st)

\* A device object after __init__ and the device it names.
DeviceInit ==
    /\ op = "init"
    /\ cls = "None"
    /\ kw = EmptyDict
    /\ rec = NoObj
    /\ src = NoObj
    /\ data = << >>
    /\ json = EmptyDict
    /\ err = "none"
    /\ ret = NoObj
    /\ pc = "idle"
    /\ arg = NoObj
    /\ requests = << >>
    /\ chars = PlainDevice
    /\ ncalls = 0
    /\ dev = NoDevice
    /\ links = << >>
    /\ loops = << >>
    /\ thr = NoCallers

DeviceNext ==
    \/ Connect
    \/ Disconnect
    \/ DeviceType
    \/ ReadSystemState
    \/ WriteSystemState
    \/ ReadBlowerPid
    \/ WriteBlowerPid
    \/ ReadManualControl
    \/ WriteManualControl
    \/ ReadRgbLed
    \/ WriteRgbLed
    \/ WifiStatus
    \/ SetWifi
    \/ StartOta
    \/ GattRead
    \/ GattWrite
    \/ GattFail

DeviceSpec == DeviceInit /\ [][DeviceNext]_vars

\* ------------------------------------------------------- the loop thread
\* One AsyncLoopThread, a thread that calls run() on it and a thread that
\* calls close() on it. The loop runs as asyncio's BaseEventLoop does: each
\* iteration of run_forever runs the callbacks that were scheduled when it
\* began, and run_forever returns after the iteration in which stop() was
\* called.

\* The coroutines run() is called with: one that returns at once, one that
\* raises at once, one that awaits I/O and then returns.
CoroKinds == {"result", "exception", "io"}

\* A callback scheduled in the loop: "submit" wraps coroutine id in a task,
\* "step" runs task id up to its next await, "done" copies the outcome of
\* task id to the future its caller waits on, "gdone" tells the gather
\* awaited by task to that task id is done.
Cb(k, i, to) == [k |-> k, id |-> i, to |-> to]

\* A coroutine handed to run_coroutine_threadsafe.
\*   task    "none" until its task is made, then "ready" (a step is
\*           scheduled), "waiting" (suspended in an await) or "done"
\*   phase   awaits it has passed
\*   cancel  cancel() was called on its task
\*   res     the task's outcome
\*   fut     the outcome in the future its caller waits on
\*   wait    the tasks the gather it awaits still waits for
Coro(kind) == [kind |-> kind, task |-> "none", phase |-> 0, cancel |-> FALSE,
               res |-> "pending", fut |-> "pending", wait |-> {}]

\* asyncio.run_coroutine_threadsafe(coro, loop) on an open loop: the future
\* is made and call_soon_threadsafe schedules the callback that makes the
\* task.
Submit(l, kind) ==
    [l EXCEPT !.futs = Append(@, Coro(kind)),
              !.ready = Append(@, Cb("submit", Len(l.futs) + 1, 0))]

\* The task awaiting a gather that waits for task i, if there is one.
Gathering(l, i) == {s \in DOMAIN l.futs : i \in l.futs[s].wait}

\* Task i ends with res: its done callbacks are scheduled, first the one
\* run_coroutine_threadsafe chained to the caller's future, then the gather's.
Finish(l, i, res) ==
    [l EXCEPT !.futs[i].task = "done",
              !.futs[i].res = res,
              !.ready = @ \o << Cb("done", i, 0) >>
                          \o [n \in 1..Cardinality(Gathering(l, i)) |->
                                 Cb("gdone", i, CHOOSE s \in Gathering(l, i) : TRUE)]]

\* Task.cancel(): a suspended task is woken, and its next step raises
\* CancelledError in the coroutine.
Cancel(l, j) ==
    IF l.futs[j].task = "waiting"
    THEN [l EXCEPT !.futs[j].cancel = TRUE, !.futs[j].task = "ready",
                   !.ready = Append(@, Cb("step", j, 0))]
    ELSE [l EXCEPT !.futs[j].cancel = TRUE]

RECURSIVE CancelAll(_, _)
CancelAll(l, T) ==
    IF T = {} THEN l
    ELSE LET j == CHOOSE x \in T : \A y \in T : x <= y
         IN  CancelAll(Cancel(l, j), T \ {j})

\* A step of the task of a coroutine given to run().
StepUser(l, i) ==
    IF l.futs[i].cancel THEN Finish(l, i, "cancelled")
    ELSE IF l.futs[i].kind = "io" /\ l.futs[i].phase = 0
    THEN [l EXCEPT !.futs[i].task = "waiting", !.futs[i].phase = 1]
    ELSE Finish(l, i, IF l.futs[i].kind = "exception" THEN "exception" ELSE "result")

\* The tasks _shutdown cancels: every task of the loop but its own that is
\* not done.
OtherTasks(l, s) ==
    {j \in DOMAIN l.futs \ {s} : l.futs[j].task \in {"ready", "waiting"}}

\* A step of the task of _shutdown: it cancels the other tasks and awaits
\* them when there are any; then it calls loop.stop() and returns.
shutdown(l, s) ==
    IF l.futs[s].phase = 0 /\ OtherTasks(l, s) # {}
    THEN [CancelAll(l, OtherTasks(l, s)) EXCEPT
              !.futs[s].task = "waiting", !.futs[s].phase = 1,
              !.futs[s].wait = OtherTasks(l, s)]
    ELSE [Finish(l, s, "result") EXCEPT !.stopping = TRUE]

\* The gather awaited by task s learns that task i is done; when it was the
\* last one, task s is woken.
GatherDone(l, i, s) ==
    IF l.futs[s].wait = {i}
    THEN [l EXCEPT !.futs[s].wait = {}, !.futs[s].task = "ready",
                   !.ready = Append(@, Cb("step", s, 0))]
    ELSE [l EXCEPT !.futs[s].wait = @ \ {i}]

\* The loop runs callback cb.
Exec(l, cb) ==
    CASE cb.k = "submit" ->
           [l EXCEPT !.futs[cb.id].task = "ready",
                     !.ready = Append(@, Cb("step", cb.id, 0))]
      [] cb.k = "step" ->
           IF l.futs[cb.id].kind = "shutdown" THEN shutdown(l, cb.id)
           ELSE StepUser(l, cb.id)
      [] cb.k = "done" -> [l EXCEPT !.futs[cb.id].fut = l.futs[cb.id].res]
      [] cb.k = "gdone" -> GatherDone(l, cb.id, cb.to)

\* The loop thread under test.
TheLoop == loops[1]

\* The loop thread takes step l1, a caller takes step t1; nothing else
\* changes.
LoopStep(l1, t1) ==
    /\ loops' = [loops EXCEPT ![1] = l1]
    /\ thr' = t1
    /\ UNCHANGED << op, cls, kw, rec, src, data, json, err, ret,
                    pc, arg, requests, chars, ncalls, dev, links >>

\* _run_once begins an iteration: it will run the callbacks scheduled now.
LoopIterate ==
    /\ TheLoop.state = "running"
    /\ TheLoop.todo = 0
    /\ ~TheLoop.stopping
    /\ TheLoop.ready # << >>
    /\ LoopStep([TheLoop EXCEPT !.todo = Len(TheLoop.ready)], thr)

\* _run_once runs the next callback of the iteration.
LoopRun ==
    /\ TheLoop.state = "running"
    /\ TheLoop.todo > 0
    /\ \E l1 \in {Exec([TheLoop EXCEPT !.ready = Tail(@), !.todo = @ - 1],
                        Head(TheLoop.ready))} :
         LoopStep(l1, thr)

\* The iteration in which stop() was called is over: run_forever returns and
\* the thread ends.
LoopExit ==
    /\ TheLoop.state = "running"
    /\ TheLoop.todo = 0
    /\ TheLoop.stopping
    /\ LoopStep([TheLoop EXCEPT !.state = "stopped", !.stopping = FALSE], thr)

\* The I/O a suspended task awaits completes: the task is woken.
IoDone ==
    /\ TheLoop.state = "running"
    /\ \E i \in DOMAIN TheLoop.futs :
         /\ TheLoop.futs[i].task = "waiting"
         /\ TheLoop.futs[i].kind = "io"
         /\ LoopStep([TheLoop EXCEPT !.futs[i].task = "ready",
                                     !.ready = Append(@, Cb("step", i, 0))], thr)

\* run(coro), line 29: raises RuntimeError when _closed is set.
RunCall ==
    /\ thr.run.pc = "idle"
    /\ thr.run.n < MaxRuns
    /\ \E kind \in CoroKinds :
         IF TheLoop.closed
         THEN LoopStep(TheLoop, [thr EXCEPT !.run.coro = kind, !.run.id = 0,
                                            !.run.n = @ + 1,
                                            !.run.out = "RuntimeError"])
         ELSE LoopStep(TheLoop, [thr EXCEPT !.run.coro = kind, !.run.id = 0,
                                            !.run.out = "none",
                                            !.run.pc = "submit"])

\* run(coro), line 31: run_coroutine_threadsafe; call_soon_threadsafe raises
\* RuntimeError when the loop is closed.
RunSubmit ==
    /\ thr.run.pc = "submit"
    /\ IF TheLoop.state = "closed"
       THEN LoopStep(TheLoop, [thr EXCEPT !.run.pc = "idle", !.run.n = @ + 1,
                                          !.run.out = "RuntimeError"])
       ELSE LoopStep(Submit(TheLoop, thr.run.coro),
                     [thr EXCEPT !.run.pc = "wait",
                                 !.run.id = Len(TheLoop.futs) + 1])

\* run(coro), line 32: fut.result() returns or raises once the future is
\* done.
RunResult ==
    /\ thr.run.pc = "wait"
    /\ TheLoop.futs[thr.run.id].fut # "pending"
    /\ LoopStep(TheLoop, [thr EXCEPT !.run.pc = "idle", !.run.n = @ + 1,
                                      !.run.out = TheLoop.futs[thr.run.id].fut])

\* close(), lines 56-59: returns when _closed is set, else submits
\* _shutdown.
CloseCall ==
    /\ thr.close.pc = "idle"
    /\ thr.close.n < MaxCloses
    /\ IF TheLoop.closed
       THEN LoopStep(TheLoop, [thr EXCEPT !.close.n = @ + 1, !.close.id = 0,
                                          !.close.out = "none"])
       ELSE LoopStep(Submit(TheLoop, "shutdown"),
                     [thr EXCEPT !.close.pc = "wait", !.close.out = "none",
                                 !.close.id = Len(TheLoop.futs) + 1])

\* close(), line 59: result(timeout=2) returns when the future is done, and
\* raises TimeoutError when the two seconds pass before it is.
CloseWait ==
    /\ thr.close.pc = "wait"
    /\ LoopStep(TheLoop,
                [thr EXCEPT !.close.pc = "finally",
                            !.close.out =
                                IF TheLoop.futs[thr.close.id].fut = "pending"
                                THEN "TimeoutError" ELSE "none"])

\* close(), line 61: _closed = True.
CloseMark ==
    /\ thr.close.pc = "finally"
    /\ LoopStep([TheLoop EXCEPT !.closed = TRUE], [thr EXCEPT !.close.pc = "join"])

\* close(), lines 63-72: the join returns when the thread has ended or half
\* a second has passed; loop.close() closes a stopped loop and drops its
\* callbacks, and raises RuntimeError, which is swallowed, on a running one;
\* the error of line 59 then goes on to the caller.
CloseLoop ==
    /\ thr.close.pc = "join"
    /\ LoopStep(IF TheLoop.state = "stopped"
                THEN [TheLoop EXCEPT !.state = "closed", !.ready = << >>]
                ELSE TheLoop,
                [thr EXCEPT !.close.pc = "idle", !.close.n = @ + 1])

\* An AsyncLoopThread after __init__, and two threads that hold it.
LoopInit ==
    /\ op = "init"
    /\ cls = "None"
    /\ kw = EmptyDict
    /\ rec = NoObj
    /\ src = NoObj
    /\ data = << >>
    /\ json = EmptyDict
    /\ err = "none"
    /\ ret = NoObj
    /\ pc = "idle"
    /\ arg = NoObj
    /\ requests = << >>
    /\ chars = EmptyDict
    /\ ncalls = 0
    /\ dev = NoDevice
    /\ links = << >>
    /\ loops = << NewLoop >>
    /\ thr = NoCallers

LoopNext ==
    \/ LoopIterate
    \/ LoopRun
    \/ LoopExit
    \/ IoDone
    \/ RunCall
    \/ RunSubmit
    \/ RunResult
    \/ CloseCall
    \/ CloseWait
    \/ CloseMark
    \/ CloseLoop

\* The operating system schedules every thread that can take a step, the
\* loop runs what is scheduled in it, I/O completes and timeouts expire;
\* whether and when a caller calls run() or close() is up to the caller.
LoopFair ==
    /\ WF_vars(LoopIterate)
    /\ WF_vars(LoopRun)
    /\ WF_vars(LoopExit)
    /\ WF_vars(IoDone)
    /\ WF_vars(RunSubmit)
    /\ WF_vars(RunResult)
    /\ WF_vars(CloseWait)
    /\ WF_vars(CloseMark)
    /\ WF_vars(CloseLoop)

LoopSpec == LoopInit /\ [][LoopNext]_vars /\ LoopFair

\* ================================================================ claims
Builders == {"partial_system_state", "partial_manual_control", "partial_blower_pid"}

\* C1: from_bytes of every record type raises ValueError and returns no
\* record whenever the buffer's length differs from the size of the record's
\* struct; in particular a 20-byte buffer decoded as ManualControl fails.
C1_SizeMismatchRejected ==
    /\ (op = "from_bytes" /\ Len(data) # StructSize(StructOf(cls)))
          => (err = "ValueError" /\ rec = NoObj)
    /\ (op = "from_bytes" /\ cls = "ManualControl" /\ Len(data) = 20)
          => (err = "ValueError" /\ rec = NoObj)

\* A 20-byte payload was decoded as ManualControl and rejected.
C1_Witness ==
    /\ op = "from_bytes"
    /\ cls = "ManualControl"
    /\ Len(data) = 20
    /\ err = "ValueError"

\* C5 as stated: the wire size of SystemState is 27 bytes.
C5_Original ==
    /\ (op = "to_bytes" /\ cls = "SystemState" /\ err = "none") => Len(data) = 27
    /\ (op = "from_bytes" /\ cls = "SystemState") => (err = "none" <=> Len(data) = 27)

\* C5 amended: the wire size of SystemState is 41 bytes
\* (1 + 4*4 + 2*3 + 4 + 1*6 + 4 + 4): to_bytes returns 41 bytes and
\* from_bytes accepts a buffer if and only if it is 41 bytes long.
C5_SystemStateSize ==
    /\ (op = "to_bytes" /\ cls = "SystemState" /\ err = "none") => Len(data) = 41
    /\ (op = "from_bytes" /\ cls = "SystemState") => (err = "none" <=> Len(data) = 41)

\* A SystemState was encoded and its 41 bytes were decoded again.
C5_Witness ==
    /\ op = "from_bytes"
    /\ cls = "SystemState"
    /\ src.cls = "SystemState"
    /\ Len(data) = 41
    /\ err = "none"

\* C6 as stated: the wire size of ManualControl is 21 bytes.
C6_Original ==
    /\ (op = "to_bytes" /\ cls = "ManualControl" /\ err = "none") => Len(data) = 21
    /\ (op = "from_bytes" /\ cls = "ManualControl") => (err = "none" <=> Len(data) = 21)

\* C6 amended: the wire size of ManualControl is 25 bytes (4*3 + 1 + 4 + 8):
\* to_bytes returns 25 bytes and from_bytes accepts a buffer if and only if it
\* is 25 bytes long.
C6_ManualControlSize ==
    /\ (op = "to_bytes" /\ cls = "ManualControl" /\ err = "none") => Len(data) = 25
    /\ (op = "from_bytes" /\ cls = "ManualControl") => (err = "none" <=> Len(data) = 25)

\* A ManualControl was encoded and its 25 bytes were decoded again.
C6_Witness ==
    /\ op = "from_bytes"
    /\ cls = "ManualControl"
    /\ src.cls = "ManualControl"
    /\ Len(data) = 25
    /\ err = "none"

\* C7: the wire size of BlowerPID is 72 bytes: to_bytes returns 72 bytes and
\* from_bytes accepts a buffer if and only if it is 72 bytes long.
C7_BlowerPIDSize ==
    /\ (op = "to_bytes" /\ cls = "BlowerPID" /\ err = "none") => Len(data) = 72
    /\ (op = "from_bytes" /\ cls = "BlowerPID") => (err = "none" <=> Len(data) = 72)

\* A BlowerPID was encoded and its 72 bytes were decoded again.
C7_Witness ==
    /\ op = "from_bytes"
    /\ cls = "BlowerPID"
    /\ src.cls = "BlowerPID"
    /\ Len(data) = 72
    /\ err = "none"

\* ------------------------------------------------ vocabulary of the claims
\* v has the shape of the field's type: 8 byte values, 4 floats, 2 triples.
ShapeOk(kind, v) ==
    CASE kind = "bytes" -> Len(v) = 8 /\ \A i \in 1..Len(v) : v[i] \in 0..255
      [] kind = "floats" -> Len(v) = 4
      [] kind = "rgb" -> Len(v) = 2 /\ \A i \in 1..Len(v) : Len(v[i]) = 3
      [] OTHER -> TRUE

\* The sentinel table of the specification.
SentinelOf(kind) ==
    CASE kind = "f" -> MathNan
      [] kind = "floats" -> << MathNan, MathNan, MathNan, MathNan >>
      [] kind = "H" -> 65535
      [] kind = "i" -> W(-32768, 0)
      [] kind = "I" -> W(65535, 65535)

HasSentinel(kind) == kind \in {"f", "floats", "H", "i", "I"}

\* A float no larger in magnitude than a single can hold after rounding.
FitsSingle(v) ==
    \/ v.k # "fin"
    \/ v.e < 127
    \/ v.e = 127 /\ ~(v.m = 8388607 /\ v.g = 1)

\* v is a value of the field's wire type.
FitsWire(kind, v) ==
    CASE kind = "f" -> FitsSingle(v)
      [] kind = "B" -> v \in 0..255
      [] kind = "H" -> v \in 0..65535
      [] kind = "i" -> v.hi \in -32768..32767
      [] kind = "I" -> v.hi \in 0..65535
      [] kind = "bytes" -> TRUE
      [] kind = "floats" -> Len(v) = 4 /\ \A i \in 1..Len(v) : FitsSingle(v[i])
      [] kind = "rgb" ->
           \A i \in 1..Len(v) : i <= 2 => \A j \in 1..3 : v[i][j] \in 0..255

Encodable(o) == \A x \in Fields(o.cls) : FitsWire(Kind(o.cls, x), o.f[x])

\* A valid record of the data model: encodable, with containers of the
\* declared length.
Valid(o) ==
    /\ Encodable(o)
    /\ \A x \in Fields(o.cls) : ShapeOk(Kind(o.cls, x), o.f[x])

\* Two projected floats agree: both None, both NaN, or equal after rounding
\* to a single.
FloatSame(x, y) ==
    \/ x = PyNone /\ y = PyNone
    \/ isnan(x) /\ isnan(y)
    \/ /\ x # PyNone /\ y # PyNone
       /\ f32(x).err = "none" /\ f32(y).err = "none"
       /\ PyFloatEq(f32(x).val, f32(y).val)

JsonSame(c, a, b) ==
    /\ DOMAIN a = DOMAIN b
    /\ \A k \in DOMAIN a :
         CASE Kind(c, k) = "f" -> FloatSame(a[k], b[k])
           [] Kind(c, k) = "floats" ->
                Len(a[k]) = Len(b[k]) /\ \A i \in 1..Len(a[k]) : FloatSame(a[k][i], b[k][i])
           [] OTHER -> a[k] = b[k]

\* C2 as stated: a builder called with one field X = x returns a record with
\* X = x and the sentinel of its type in every other float, 16-bit and 32-bit
\* field.
C2_Original ==
    (/\ op \in Builders
     /\ err = "none"
     /\ Cardinality(DOMAIN kw) = 1
     /\ \A x \in DOMAIN kw : ShapeOk(Kind(cls, x), kw[x]))
    => \A x \in Fields(cls) :
         IF x \in DOMAIN kw THEN rec.f[x] = kw[x]
         ELSE HasSentinel(Kind(cls, x)) => rec.f[x] = SentinelOf(Kind(cls, x))

\* C2 amended: a builder called with one field X = x returns a record with
\* X = x, NaN in every other float field (and in each of the four
\* reserved_floats), 0xFFFF in every other 16-bit field, INT32_MIN in
\* encoderCount and 0xFFFFFFFF in blowerPulseCount; the unsigned 32-bit
\* fields of BlowerPID (update_interval_ms, flags, last_update_tick) are 0.
C2_SentinelConstruction ==
    (/\ op \in Builders
     /\ err = "none"
     /\ Cardinality(DOMAIN kw) = 1
     /\ \A x \in DOMAIN kw : ShapeOk(Kind(cls, x), kw[x]))
    => \A x \in Fields(cls) :
         IF x \in DOMAIN kw THEN rec.f[x] = kw[x]
         ELSE IF cls = "BlowerPID" /\ Kind(cls, x) = "I" THEN rec.f[x] = W(0, 0)
         ELSE HasSentinel(Kind(cls, x)) => rec.f[x] = SentinelOf(Kind(cls, x))

\* partial_system_state(pressure1=x) returned a record.
C2_Witness ==
    /\ op = "partial_system_state"
    /\ DOMAIN kw = {"pressure1"}
    /\ err = "none"
    /\ rec.f.pressure1 = kw["pressure1"]
    /\ rec.f.blowerPulseCount = W(65535, 65535)

\* C3: for every valid record V, from_bytes(to_bytes(V)).to_json() equals
\* V.to_json() field by field, floats compared after rounding to a single
\* and NaN by "is NaN".
C3_RoundTrip ==
    (op = "to_json" /\ src # NoObj /\ Valid(src))
    => /\ err = "none"
       /\ to_json(src).err = "none"
       /\ JsonSame(cls, json, to_json(src).val)

\* The SystemState of the unit test was encoded, decoded and projected.
C3_Witness ==
    /\ op = "to_json"
    /\ src = TestRecord("SystemState")
    /\ rec.cls = "SystemState"
    /\ err = "none"

\* C4 as stated, for the records the builders make: to_bytes raises no error
\* and returns the fixed wire size.
C4_Original ==
    (op = "to_bytes" /\ DOMAIN kw # {})
    => (err = "none" /\ Len(data) = StructSize(StructOf(cls)))

\* C4 amended: to_bytes raises no error and returns exactly the fixed wire
\* size for every record whose fields all hold a value of their wire type
\* (all-zero, all-max and all-sentinel records included); for any other
\* record, such as one a builder made from an out-of-range caller value, it
\* raises an error and returns nothing.
C4_EncodeFixedSize ==
    op = "to_bytes"
    => IF Encodable(src)
       THEN err = "none" /\ Len(data) = StructSize(StructOf(cls))
       ELSE err \in {"struct.error", "OverflowError"} /\ data = << >>

\* A record made by partial_blower_pid with one keyword was encoded.
C4_Witness ==
    /\ op = "to_bytes"
    /\ cls = "BlowerPID"
    /\ DOMAIN kw # {}
    /\ Encodable(src)
    /\ err = "none"
    /\ Len(data) = 72

\* C8: partial_blower_pid(kp=1.1) has kp = 1.1, NaN in every other float
\* field and in all four reserved_floats, 0xFFFF in the 16-bit fields and 0
\* in update_interval_ms, flags and last_update_tick.
C8_PartialBlowerPidKp ==
    (op = "partial_blower_pid" /\ DOMAIN kw = {"kp"} /\ kw["kp"] = FloatArgs[2])
    => /\ err = "none"
       /\ rec.f.kp = FloatArgs[2]
       /\ \A x \in Fields("BlowerPID") \ {"kp"} :
            Kind("BlowerPID", x) = "f" => isnan(rec.f[x])
       /\ rec.f.current_pwm = 65535
       /\ rec.f.manual_pwm_value = 65535
       /\ rec.f.min_pwm_output = 65535
       /\ rec.f.max_pwm_output = 65535
       /\ rec.f.update_interval_ms = W(0, 0)
       /\ rec.f.flags = W(0, 0)
       /\ rec.f.last_update_tick = W(0, 0)
       /\ Len(rec.f.reserved_floats) = 4
       /\ \A i \in 1..4 : isnan(rec.f.reserved_floats[i])

\* partial_blower_pid(kp=1.1) was called.
C8_Witness ==
    /\ op = "partial_blower_pid"
    /\ DOMAIN kw = {"kp"}
    /\ kw["kp"] = FloatArgs[2]
    /\ rec.cls = "BlowerPID"

\* C9 as stated: in the record a builder returns every specified field holds
\* exactly the caller's value, reserved and reserved_floats included.
C9_Original ==
    (op \in Builders /\ err = "none")
    => \A x \in DOMAIN kw : rec.f[x] = kw[x]

\* C9 amended: the builders set every specified scalar field and rgb to
\* exactly the caller's value, with no range check; reserved is cut to its
\* first 8 bytes or zero-padded to 8 (a byte value outside 0..255 raises
\* ValueError), reserved_floats is cut to its first 4 elements, and an rgb
\* entry that has not exactly 3 components raises TypeError.
C9_Verbatim ==
    op \in Builders
    => LET badBytes == \E x \in DOMAIN kw :
                          /\ Kind(cls, x) = "bytes"
                          /\ \E i \in 1..Len(kw[x]) : kw[x][i] \notin 0..255
           badRgb == \E x \in DOMAIN kw :
                          /\ Kind(cls, x) = "rgb"
                          /\ \E i \in 1..Len(kw[x]) : Len(kw[x][i]) # 3
       IN  /\ err = (IF badBytes THEN "ValueError"
                     ELSE IF badRgb THEN "TypeError" ELSE "none")
           /\ err = "none" =>
                \A x \in DOMAIN kw :
                  CASE Kind(cls, x) = "bytes" ->
                         rec.f[x] = [i \in 1..8 |-> IF i <= Len(kw[x]) THEN kw[x][i] ELSE 0]
                    [] Kind(cls, x) = "floats" ->
                         /\ Len(rec.f[x]) = (IF Len(kw[x]) < 4 THEN Len(kw[x]) ELSE 4)
                         /\ \A i \in 1..Len(rec.f[x]) : rec.f[x][i] = kw[x][i]
                    [] OTHER -> rec.f[x] = kw[x]

\* partial_manual_control was given a 2-byte reserved blob.
C9_Witness ==
    /\ op = "partial_manual_control"
    /\ DOMAIN kw = {"reserved"}
    /\ Len(kw["reserved"]) = 2
    /\ err = "none"
    /\ Len(rec.f.reserved) = 8

\* C10: in every to_json projection each float field, and each non-NaN
\* element of reserved_floats, is the field's value rounded to a single: the
\* value that from_bytes(to_bytes(V)) holds for it.
C10_FloatCanonical ==
    (op = "to_json" /\ err = "none")
    => LET b == to_bytes(rec)
           Canon(x, j) ==
               /\ IsSingle(j)
               /\ j = UnpackFloat(PackFloat(x))
       IN  \A x \in Fields(cls) :
             CASE Kind(cls, x) = "f" ->
                    /\ Canon(rec.f[x], json[x])
                    /\ b.err = "none" => json[x] = from_bytes(cls, b.data).val.f[x]
               [] Kind(cls, x) = "floats" ->
                    /\ Len(json[x]) = Len(rec.f[x])
                    /\ \A i \in 1..Len(rec.f[x]) :
                         ~isnan(rec.f[x][i]) =>
                           /\ Canon(rec.f[x][i], json[x][i])
                           /\ b.err = "none" =>
                                json[x][i] = from_bytes(cls, b.data).val.f[x][i]
               [] OTHER -> TRUE

\* A ManualControl whose feeder_seconds is 1.1 was projected, and the
\* projection holds the single nearest to 1.1.
C10_Witness ==
    /\ op = "to_json"
    /\ cls = "ManualControl"
    /\ err = "none"
    /\ rec.f.feeder_seconds = FloatArgs[2]
    /\ json["feeder_seconds"] # rec.f.feeder_seconds

\* Python's == on two projections made by separate to_json calls: floats by
\* float equality (NaN equals nothing), None only equals None.
PyItemEq(x, y) ==
    IF x = PyNone \/ y = PyNone THEN x = y ELSE PyFloatEq(x, y)

PyJsonEq(c, a, b) ==
    /\ DOMAIN a = DOMAIN b
    /\ \A k \in DOMAIN a :
         CASE Kind(c, k) = "f" -> PyItemEq(a[k], b[k])
           [] Kind(c, k) = "floats" ->
                Len(a[k]) = Len(b[k]) /\ \A i \in 1..Len(a[k]) : PyItemEq(a[k][i], b[k][i])
           [] OTHER -> a[k] = b[k]

\* C11: in every to_json projection a float field that is NaN is None and
\* never a raw NaN, for every float field of the three record types, and the
\* projection equals by value the projection of the record decoded from the
\* same encoding.
C11_NanAsNone ==
    (op = "to_json" /\ err = "none")
    => /\ \A x \in Fields(cls) :
            CASE Kind(cls, x) = "f" ->
                   /\ ~isnan(json[x])
                   /\ isnan(rec.f[x]) => json[x] = PyNone
              [] Kind(cls, x) = "floats" ->
                   \A i \in 1..Len(json[x]) :
                     /\ ~isnan(json[x][i])
                     /\ isnan(rec.f[x][i]) => json[x][i] = PyNone
              [] OTHER -> TRUE
       /\ LET b == to_bytes(rec)
          IN  b.err = "none" =>
                PyJsonEq(cls, json, to_json(from_bytes(cls, b.data).val).val)

\* C12: ManualControl.to_bytes writes reserved as exactly 8 bytes, a shorter
\* blob zero-padded on the right and a longer one cut to its first 8 bytes;
\* from_bytes returns the 8 reserved bytes of the buffer as they are; a
\* ManualControl built without reserved carries 8 zero bytes.
C12_ReservedBlob ==
    /\ (op = "to_bytes" /\ cls = "ManualControl" /\ err = "none")
          => /\ Len(data) = 25
             /\ \A i \in 1..8 :
                  data[17 + i] = (IF i <= Len(src.f.reserved) THEN src.f.reserved[i] ELSE 0)
    /\ (op = "from_bytes" /\ cls = "ManualControl" /\ err = "none")
          => rec.f.reserved = SubSeq(data, 18, 25)
    /\ (op = "partial_manual_control" /\ err = "none" /\ "reserved" \notin DOMAIN kw)
          => rec.f.reserved = << 0, 0, 0, 0, 0, 0, 0, 0 >>
    /\ (op = "to_bytes" /\ src = TestRecord("ManualControl"))
          => SubSeq(data, 18, 25) = << 0, 0, 0, 0, 0, 0, 0, 0 >>

\* A ManualControl holding a 2-byte reserved blob was encoded with six zero
\* bytes of padding.
C12_Witness ==
    /\ op = "to_bytes"
    /\ cls = "ManualControl"
    /\ err = "none"
    /\ src.f.reserved = << 1, 2 >>
    /\ SubSeq(data, 18, 25) = << 1, 2, 0, 0, 0, 0, 0, 0 >>

\* The wire-format table: the fields of each record in wire order, with the
\* type of each.  An entry of n elements stands for n consecutive values.
WireTable(c) ==
    CASE c = "SystemState" ->
           << << "state", "u8", 1 >>, << "pressure1", "f32", 1 >>,
              << "pressure2", "f32", 1 >>, << "absPressure", "f32", 1 >>,
              << "motorCurrent", "f32", 1 >>, << "getriebemotorPWM", "u16", 1 >>,
              << "vibrationsmotorPWM", "u16", 1 >>, << "blowerPWM", "u16", 1 >>,
              << "blowerPulseRateRPM", "f32", 1 >>, << "rgb", "rgb", 2 >>,
              << "encoderCount", "i32", 1 >>, << "blowerPulseCount", "u32", 1 >> >>
      [] c = "ManualControl" ->
           << << "blower_rpm", "f32", 1 >>, << "getriebemotor_pwm", "f32", 1 >>,
              << "vibrationsmotor_pwm", "f32", 1 >>,
              << "enable_getriebemotor_nvs", "u8", 1 >>,
              << "feeder_seconds", "f32", 1 >>, << "reserved", "u8", 8 >> >>
      [] c = "BlowerPID" ->
           << << "kp", "f32", 1 >>, << "ki", "f32", 1 >>, << "kd", "f32", 1 >>,
              << "target_frequency", "f32", 1 >>, << "current_frequency", "f32", 1 >>,
              << "last_error", "f32", 1 >>, << "integral_sum", "f32", 1 >>,
              << "current_pwm", "u16", 1 >>, << "manual_pwm_value", "u16", 1 >>,
              << "min_pwm_output", "u16", 1 >>, << "max_pwm_output", "u16", 1 >>,
              << "update_interval_ms", "u32", 1 >>, << "flags", "u32", 1 >>,
              << "last_update_tick", "u32", 1 >>, << "feed_forward", "f32", 1 >>,
              << "derivative_filter_hz", "f32", 1 >>, << "reserved_floats", "f32", 4 >> >>

TypeWidth(t) ==
    CASE t = "u8" -> 1 [] t = "u16" -> 2 [] t = "rgb" -> 3 [] OTHER -> 4

\* Offset of entry i: the sum of the widths of the entries before it.
RECURSIVE OffsetOf(_, _)
OffsetOf(c, i) ==
    IF i = 1 THEN 0
    ELSE OffsetOf(c, i - 1) + TypeWidth(WireTable(c)[i - 1][2]) * WireTable(c)[i - 1][3]

\* The value of type t that the bytes b[o+1 .. o+width] denote, least
\* significant byte first: an integer, a 32-bit [hi, lo] pair, the bit
\* pattern of a single as such a pair, or an RGB triple.
WireValue(t, b, o) ==
    CASE t = "u8" -> b[o + 1]
      [] t = "u16" -> b[o + 1] + 256 * b[o + 2]
      [] t = "u32" -> W(b[o + 3] + 256 * b[o + 4], b[o + 1] + 256 * b[o + 2])
      [] t = "i32" ->
           W(b[o + 3] + 256 * b[o + 4] - (IF b[o + 4] >= 128 THEN 65536 ELSE 0),
             b[o + 1] + 256 * b[o + 2])
      [] t = "f32" -> W(b[o + 3] + 256 * b[o + 4], b[o + 1] + 256 * b[o + 2])
      [] t = "rgb" -> << b[o + 1], b[o + 2], b[o + 3] >>

\* The same for a field value: the bit pattern of the single nearest to a
\* float, sign bit leading.
FieldValue(t, v) ==
    IF t = "f32"
    THEN W(SingleBits(v).s * 32768 + SingleBits(v).mag \div 65536,
           SingleBits(v).mag % 65536)
    ELSE v

\* The bit pattern of a single with the quiet bit of a NaN set: what a NaN
\* becomes when it is widened to a Python float.
IsNanBits(w) == (w.hi % 32768) \div 128 = 255 /\ ((w.hi % 128) # 0 \/ w.lo # 0)
IsSignallingBits(w) == IsNanBits(w) /\ (w.hi % 128) \div 64 = 0
Quieted(t, w) == IF t = "f32" /\ IsSignallingBits(w) THEN W(w.hi + 64, w.lo) ELSE w

\* Element j of the n values a field holds.
Element(v, n, j) == IF n = 1 THEN v ELSE v[j]

\* C13: to_bytes writes each field little-endian at the offset that the
\* widths of the fields before it in the wire-format table add up to, with no
\* padding, and from_bytes reads each field from the same offset (a NaN up to
\* its quiet bit).
C13_Layout ==
    /\ (op = "to_bytes" /\ err = "none" /\ Valid(src))
          => \A i \in 1..Len(WireTable(cls)) :
               LET e == WireTable(cls)[i]
               IN  \A j \in 1..e[3] :
                     WireValue(e[2], data, OffsetOf(cls, i) + (j - 1) * TypeWidth(e[2]))
                       = FieldValue(e[2], Element(src.f[e[1]], e[3], j))
    /\ (op = "from_bytes" /\ err = "none")
          => \A i \in 1..Len(WireTable(cls)) :
               LET e == WireTable(cls)[i]
               IN  \A j \in 1..e[3] :
                     Quieted(e[2],
                         WireValue(e[2], data, OffsetOf(cls, i) + (j - 1) * TypeWidth(e[2])))
                       = FieldValue(e[2], Element(rec.f[e[1]], e[3], j))

\* The BlowerPID of the unit test was encoded: max_pwm_output = 1023 lies at
\* offset 34 with its low byte first.
C13_Witness ==
    /\ op = "to_bytes"
    /\ src = TestRecord("BlowerPID")
    /\ err = "none"
    /\ data[35] = 255
    /\ data[36] = 3

\* Some float of a buffer of record type c is a signalling NaN.
HasSignallingNan(c, b) ==
    \E i \in 1..Len(WireTable(c)) :
      LET e == WireTable(c)[i]
      IN  /\ e[2] = "f32"
          /\ \E j \in 1..e[3] :
               IsSignallingBits(WireValue("f32", b, OffsetOf(c, i) + (j - 1) * 4))

\* b with the quiet bit set in every float that is a signalling NaN.
QuietedBuffer(c, b) ==
    [k \in 1..Len(b) |->
        IF \E i \in 1..Len(WireTable(c)) :
             LET e == WireTable(c)[i]
             IN  /\ e[2] = "f32"
                 /\ \E j \in 1..e[3] :
                      LET o == OffsetOf(c, i) + (j - 1) * 4
                      IN  k = o + 3 /\ IsSignallingBits(WireValue("f32", b, o))
        THEN b[k] + 64 ELSE b[k]]

\* C20 as stated: encoding the record decoded from a buffer of the declared
\* size gives the same buffer, byte for byte.
C20_Original ==
    [][(op = "from_bytes" /\ err = "none" /\ op' = "to_bytes")
          => (err' = "none" /\ data' = data)]_vars

\* C20 amended: encoding the record decoded from a buffer of the declared
\* size gives the same buffer unless a float of the buffer is a signalling
\* NaN; such a float is written back as the quiet NaN of the same sign and
\* payload (bit 22 set) and every other byte is unchanged.
C20_ReencodeIdentity ==
    [][(op = "from_bytes" /\ err = "none" /\ op' = "to_bytes")
          => /\ err' = "none"
             /\ data' = QuietedBuffer(cls, data)
             /\ ~HasSignallingNan(cls, data) => data' = data]_vars

\* A device payload whose first float is the largest subnormal was decoded as
\* ManualControl and encoded again.
C20_Witness ==
    /\ op = "to_bytes"
    /\ cls = "ManualControl"
    /\ err = "none"
    /\ SubSeq(data, 1, 4) = << 255, 255, 127, 0 >>
    /\ src.f.blower_rpm.k = "fin"

\* C18: each UUID constant is the firmware's 16-byte list reversed once (byte
\* i of the UUID is byte 15-i of the list; SYSTEM_STATE_UUID reads
\* 2fb1f624-dbf0-0dad-4fac-fe0f89988768), a list whose length is not 16 is
\* rejected with ValueError, and the eight UUIDs are pairwise distinct.
C18_UuidDerivation ==
    op = "_uuid_from_le_bytes"
    => /\ Len(data) # 16 => (err = "ValueError" /\ ret = NoObj)
       /\ err = "none" =>
            /\ Len(ret.bytes) = 16
            /\ \A i \in 0..15 : ret.bytes[i + 1] = data[(15 - i) + 1]
       /\ (\E i \in 1..8 : data = FirmwareTables[i]) =>
            /\ err = "none"
            /\ ret \in {ALL_UUIDS[k] : k \in DOMAIN ALL_UUIDS}
            /\ Cardinality({k \in DOMAIN ALL_UUIDS : ALL_UUIDS[k] = ret}) = 1
       /\ Cardinality({ALL_UUIDS[k] : k \in DOMAIN ALL_UUIDS}) = 8
       /\ data = SYSTEM_STATE_BYTES =>
            /\ ret = SYSTEM_STATE_UUID
            /\ UuidStr(ret) = "2fb1f624-dbf0-0dad-4fac-fe0f89988768"

\* The firmware's SystemState list was converted.
C18_Witness ==
    /\ op = "_uuid_from_le_bytes"
    /\ data = SYSTEM_STATE_BYTES
    /\ err = "none"
    /\ ret.bytes[1] = 47
    /\ ret.bytes[16] = 104

\* ------------------------------------------- vocabulary: client calls
\* The characteristic of each method's record type.
CharacteristicOf(m) ==
    CASE m = "device_type" -> DEVICE_TYPE_UUID
      [] m \in {"read_system_state", "write_system_state", "read_rgb_led", "write_rgb_led"}
           -> SYSTEM_STATE_UUID
      [] m \in {"read_blower_pid", "write_blower_pid"} -> BLOWER_PID_UUID
      [] m \in {"read_manual_control", "write_manual_control"} -> MANUAL_CONTROL_UUID
      [] m \in {"wifi_status", "set_wifi"} -> WIFI_UUID
      [] m = "start_ota" -> OTA_UUID

\* The record type a method reads or writes, "None" for the text methods.
RecordOf(m) ==
    CASE m \in {"read_system_state", "write_system_state"} -> "SystemState"
      [] m \in {"read_blower_pid", "write_blower_pid"} -> "BlowerPID"
      [] m \in {"read_manual_control", "write_manual_control"} -> "ManualControl"
      [] OTHER -> "None"

\* A call has ended.
Ended == pc = "idle" /\ op \in Methods

\* The two colours as the 6 RGB bytes of a SystemState buffer.
RgbBytes(colors) == colors[1] \o colors[2]

\* C14: every SystemState that from_bytes, from_json (through
\* partial_system_state) or write_rgb_led produces holds exactly 2 RGB
\* triples, and the 6 RGB bytes of its encoding are those two triples in
\* order.
C14_RgbPair ==
    /\ (/\ op \in {"from_bytes", "partial_system_state", "read_system_state"}
        /\ rec.cls = "SystemState")
          => /\ Len(rec.f.rgb) = 2
             /\ to_bytes(rec).err = "none"
                  => SubSeq(to_bytes(rec).data, 28, 33) = RgbBytes(rec.f.rgb)
    /\ (op = "write_rgb_led" /\ Len(requests) = 2)
          => /\ Len(rec.f.rgb) = 2
             /\ SubSeq(requests[2].data, 28, 33) = RgbBytes(rec.f.rgb)

\* C15 as stated: every public operation issues exactly one GATT request per
\* call, a read or a write addressed to the characteristic of its record
\* type.
C15_Original ==
    Ended
    => /\ Len(requests) = 1
       /\ requests[1].kind \in {"read", "write"}
       /\ requests[1].uuid = CharacteristicOf(op)

\* C15 amended: on a connected client every request of a call is addressed
\* to the characteristic of the method's record type; a read method issues
\* exactly one read and hands the returned bytes to its record's from_bytes;
\* a write method issues exactly one write carrying its record's to_bytes, or
\* no request when to_bytes raises; write_rgb_led issues one read and then,
\* when the read succeeded, the payload decoded and the colours are triples
\* that encode, one write.
C15_RequestsPerCall ==
    Ended
    => /\ \A i \in 1..Len(requests) : requests[i].uuid = CharacteristicOf(op)
       /\ op \in ReadMethods =>
            /\ Len(requests) = 1
            /\ requests[1].kind = "read"
            /\ (requests[1].outcome = "ok" /\ RecordOf(op) # "None") =>
                 /\ err = from_bytes(RecordOf(op), data).err
                 /\ rec = from_bytes(RecordOf(op), data).val
       /\ (op \in WriteMethods /\ RecordOf(op) # "None") =>
            IF to_bytes(arg).err # "none"
            THEN requests = << >> /\ err = to_bytes(arg).err
            ELSE /\ Len(requests) = 1
                 /\ requests[1].kind = "write"
                 /\ requests[1].data = to_bytes(arg).data
       /\ op \in {"set_wifi", "start_ota"} =>
            Len(requests) = 1 /\ requests[1].kind = "write"
       /\ op = "write_rgb_led" =>
            /\ Len(requests) \in {1, 2}
            /\ requests[1].kind = "read"
            /\ Len(requests) = 2 <=>
                 /\ requests[1].outcome = "ok"
                 /\ Len(data) = 41
                 /\ \A i \in 1..Len(arg.f) : Len(arg.f[i]) = 3
                 /\ \A i \in 1..Len(arg.f) :
                      i <= 2 => \A j \in 1..3 : arg.f[i][j] \in 0..255
            /\ Len(requests) = 2 => requests[2].kind = "write"

\* write_rgb_led ended after its read and its write.
C15_Witness ==
    /\ Ended
    /\ op = "write_rgb_led"
    /\ Len(requests) = 2
    /\ requests[1].outcome = "ok"
    /\ requests[2].outcome = "ok"
    /\ err = "none"

\* C16: when the collaborator fails a request, the method raises that error,
\* returns no value and issues no further request: the failed request is the
\* last of the call, and write_rgb_led issues no write after a failed read
\* or after a read whose payload has the wrong size.
C16_FailurePropagates ==
    /\ \A i \in 1..Len(requests) :
         i < Len(requests) => requests[i].outcome = "ok"
    /\ Ended =>
         /\ \A i \in 1..Len(requests) :
              requests[i].outcome \in TransportErrors
                => /\ i = Len(requests)
                   /\ err = requests[i].outcome
                   /\ ret = NoObj
                   /\ rec = NoObj
         /\ (/\ op = "write_rgb_led"
             /\ requests[1].outcome = "ok"
             /\ Len(data) # 41)
              => /\ Len(requests) = 1
                 /\ err = "ValueError"
                 /\ ret = NoObj
                 /\ rec = NoObj
         /\ (op \in Methods \ {"write_rgb_led"}) => Len(requests) <= 1

\* The write of write_rgb_led failed after its read had succeeded.
C16_Witness ==
    /\ Ended
    /\ op = "write_rgb_led"
    /\ Len(requests) = 2
    /\ requests[2].outcome = "TimeoutError"
    /\ err = "TimeoutError"

\* C17: wifi_status never raises because of what the payload holds: for a
\* payload that is not JSON, bytes that are not UTF-8 included, it returns
\* {'raw': the payload as a string}; for a JSON payload it returns the parsed
\* value.
C17_WifiFallback ==
    (Ended /\ op = "wifi_status" /\ requests[1].outcome = "ok")
    => LET t == decode(data, "strict")
           parsed == IF t.err = "none" THEN json_loads(t.val) ELSE Raise(t.err)
       IN  /\ err = "none"
           /\ ret = IF parsed.err = "none" THEN parsed.val
                    ELSE Obj("dict", [k \in {K_raw} |-> Str(decode(data, "replace").val)])

\* C19 as stated: write_rgb_led with two colours writes the buffer it read,
\* byte for byte, except for the 6 RGB bytes, which are the two colours.
C19_Original ==
    (Ended /\ op = "write_rgb_led" /\ Len(requests) = 2 /\ Len(arg.f) = 2)
    => /\ requests[1].kind = "read"
       /\ requests[1].uuid = SYSTEM_STATE_UUID
       /\ requests[2].kind = "write"
       /\ requests[2].uuid = SYSTEM_STATE_UUID
       /\ requests[2].data = Patch(data, 27, RgbBytes(arg.f))

\* C19 amended: write_rgb_led with two colours reads the SystemState
\* characteristic and then writes to it the buffer it read with the 6 RGB
\* bytes replaced by the two colours; every other byte is the one read,
\* except that a float read as a signalling NaN is written as the quiet NaN
\* of the same sign and payload.
C19_RgbWriteBack ==
    (Ended /\ op = "write_rgb_led" /\ Len(requests) = 2 /\ Len(arg.f) = 2)
    => /\ requests[1].kind = "read"
       /\ requests[1].uuid = SYSTEM_STATE_UUID
       /\ requests[2].kind = "write"
       /\ requests[2].uuid = SYSTEM_STATE_UUID
       /\ requests[2].data
            = Patch(QuietedBuffer("SystemState", data), 27, RgbBytes(arg.f))
       /\ ~HasSignallingNan("SystemState", data)
            => requests[2].data = Patch(data, 27, RgbBytes(arg.f))
       /\ requests[2].outcome = "ok" => chars[SYSTEM_STATE_UUID] = requests[2].data

\* write_rgb_led([(1, 2, 3), (4, 5, 6)]) ran on the device that holds the
\* unit test's SystemState, and the device now holds the new colours.
C19_Witness ==
    /\ Ended
    /\ op = "write_rgb_led"
    /\ arg.f = << << 1, 2, 3 >>, << 4, 5, 6 >> >>
    /\ data = Encoded(TestRecord("SystemState"))
    /\ Len(requests) = 2
    /\ requests[2].outcome = "ok"
    /\ SubSeq(chars[SYSTEM_STATE_UUID], 28, 33) = << 1, 2, 3, 4, 5, 6 >>
    /\ SubSeq(chars[SYSTEM_STATE_UUID], 1, 27) = SubSeq(data, 1, 27)

\* C21: for every record r that encodes, from_json(r.to_json()) succeeds
\* and the record it yields encodes to the bytes r encodes to.
C21_JsonRoundTrip ==
    (op = "from_json" /\ to_bytes(src).err = "none")
    => /\ err = "none"
       /\ to_bytes(rec) = to_bytes(src)

\* C26: a partial-update builder called with a keyword that names no field
\* of its record type ignores that keyword: it raises no error because of
\* it, and the call's outcome (the record, field by field, or the error a
\* known keyword's value causes) is that of the same call without the
\* keyword.
C26_UnknownKeywordIgnored ==
    op = "partial(**unknown)"
    => LET known == [x \in DOMAIN kw \cap Fields(cls) |-> kw[x]]
       IN  /\ DOMAIN kw # DOMAIN known
           /\ err = partial(cls, known).err
           /\ rec = partial(cls, known).val
           /\ DOMAIN known = {} =>
                /\ err = "none"
                /\ rec = partial(cls, EmptyDict).val
                /\ \A x \in DOMAIN kw : x \notin DOMAIN rec.f

\* partial_blower_pid(Kp=2.0) returned the record partial_blower_pid()
\* returns.
C26_Witness ==
    /\ op = "partial(**unknown)"
    /\ cls = "BlowerPID"
    /\ DOMAIN kw = {"Kp"}
    /\ err = "none"
    /\ rec = partial_blower_pid(EmptyDict).val
    /\ isnan(rec.f.kp)

\* The bytes of a SystemState buffer outside its 6 RGB bytes.
NonRgb(b) == SubSeq(b, 1, 27) \o SubSeq(b, 34, Len(b))

\* C22: when the write of write_rgb_led is applied, every non-RGB field of
\* the device's SystemState keeps the value it had immediately before, also
\* when the record changed between the read and the write of the call.
C22_OnlyRgbChanges ==
    [][(/\ op = "write_rgb_led"
        /\ pc = "gatt"
        /\ Pending.kind = "write"
        /\ pc' = "idle"
        /\ requests'[Len(requests')].outcome = "ok")
       => NonRgb(chars'[SYSTEM_STATE_UUID]) = NonRgb(chars[SYSTEM_STATE_UUID])]_vars

\* The BleakClient objects whose connection is open, and the loop threads
\* whose thread is alive.
OpenLinks == {i \in DOMAIN links : links[i] = "open"}
LiveLoops == {i \in DOMAIN loops : loops[i].state = "running"}

\* The last connect() failed while it opened the connection: _client names a
\* BleakClient that never connected.
ConnectFailed == dev.client # 0 /\ links[dev.client] = "new"

\* No connect() has succeeded so far.
NeverConnected == \A i \in DOMAIN links : links[i] = "new"

\* C23: after a connect() that failed while opening the BLE connection the
\* device object is not considered connected: the next connect() attempts the
\* connection again (it makes a new BleakClient) instead of returning at
\* once, and as long as no connect() has succeeded no client operation
\* issues a GATT request.
C23_FailedConnectNotConnected ==
    [][/\ (op' = "connect" /\ ConnectFailed) => Len(links') = Len(links) + 1
       /\ (\A i \in DOMAIN links' : links'[i] = "new") => requests' = << >>]_vars

\* C24: on one device object whose collaborator never fails, at most one BLE
\* connection is open and at most one loop thread is alive; connect() while
\* connected makes neither; after disconnect() no connection is open and no
\* loop thread is alive; while disconnected every client operation raises
\* RuntimeError and issues no GATT request; and a connect() made while
\* disconnected, whose collaborator opens the connection, ends connected on
\* a loop thread and a BleakClient made by this call.
C24_OneConnection ==
    [][/\ Cardinality(OpenLinks') <= 1
       /\ Cardinality(LiveLoops') <= 1
       /\ (op' = "connect" /\ LinkOpen) => (links' = links /\ loops' = loops)
       /\ (op' = "disconnect" /\ dev'.client = 0) => (OpenLinks' = {} /\ LiveLoops' = {})
       /\ (op' \in Methods /\ dev'.client = 0)
             => (err' = "RuntimeError" /\ requests' = << >>)
       /\ (op' = "connect" /\ dev.client = 0 /\ err' \notin TransportErrors)
             => /\ err' = "none"
                /\ Len(links') = Len(links) + 1
                /\ Len(loops') = Len(loops) + 1
                /\ dev' = [client |-> Len(links'), loop_thread |-> Len(loops')]
                /\ links'[dev'.client] = "open"
                /\ loops'[dev'.loop_thread] = NewLoop]_vars

\* How a run() call may end: with the coroutine's result, its exception or
\* its cancellation, or with RuntimeError.
RunOutcomes == {"result", "exception", "cancelled", "RuntimeError"}

\* C25: run(coro) never blocks forever when close() is called from another
\* thread at the same time or has returned before: every run() call
\* eventually ends, and it ends with the coroutine's result, with its
\* exception or cancellation, or with RuntimeError; a coroutine is submitted
\* only to a loop that has not been stopped; and a close() call on a loop
\* thread that is already closed returns without changing it.
C25_RunNeverBlocks ==
    /\ (thr.run.pc # "idle") ~> (thr.run.pc = "idle")
    /\ [](thr.run.n > 0 => thr.run.out \in RunOutcomes \cup {"none"})
    /\ [][/\ (thr.run.pc = "submit" /\ thr'.run.pc = "wait")
               => (TheLoop.state = "running" /\ ~TheLoop.stopping)
          /\ (thr.close.pc = "idle" /\ thr'.close.n > thr.close.n /\ TheLoop.closed)
               => (loops' = loops /\ thr'.close.out = "none")]_vars
====
